---- MODULE Spec2Model ----
(***************************************************************************)
(* Message delivery and state synchronisation of the chat application:     *)
(*   - the hub process: presence registry (userSocketMap), the message     *)
(*     handlers of message.controller.js acting on the Message collection, *)
(*     and the socket events they emit;                                    *)
(*   - the client store (useChatStore.js): visible list, pending set,      *)
(*     optimistic send, incoming newMessage events.                        *)
(*                                                                         *)
(* A handler is an async function: every `await` is a point where other    *)
(* handlers run.  Each handler is therefore a chain of actions, one per    *)
(* segment between two database operations; the handler's local variables  *)
(* (the document it loaded, what is left of its loop) live in its slot of  *)
(* `reqs`.                                                                 *)
(*                                                                         *)
(* Documents are Mongoose documents.  findById/find returns a private copy;*)
(* save() writes only the paths the handler modified: a scalar path is     *)
(* $set, an array .push() is a $push that increments the version key __v,  *)
(* an array assigned as a whole is $set under the condition that __v still *)
(* has the loaded value (otherwise save() throws VersionError and the      *)
(* handler's catch answers 500) and increments __v.                        *)
(*                                                                         *)
(* Left out: replyTo, createdAt/updatedAt, the timestamps inside readBy    *)
(* and deliveredTo entries, populated user summaries (fullName,            *)
(* profilePic), the 2000 character limit of text.                          *)
(***************************************************************************)
EXTENDS Naturals, Sequences, FiniteSets, TLC

----------------------------------------------------------------------------
(* Bounds of the model *)

\* connections (socket ids) a user may open in one behaviour
MaxConns == 2
\* messages the collection may hold
MaxMsgs == 2
\* handler invocations that may be in flight at once
MaxInFlight == 2
\* requests and presence changes admitted in one behaviour
MaxOps == 3
\* sendMessage calls of the client in one behaviour
MaxSends == 2
\* conversation loads of the client in one behaviour
MaxFetches == 2
\* seconds the clock runs in one behaviour
MaxTicks == 5

----------------------------------------------------------------------------
(* Identities *)

\* user documents that exist (User.exists)
Users == {"A", "B", "C"}
\* the users who act in the hub specification
Actors == {"A", "B"}
\* an id that names no user document
NoUser == "nobody"

\* a socket: the user the auth middleware resolved for it, and a serial number
Conns == Users \X (1..MaxConns)
Owner(c) == c[1]
NoConn == <<NoUser, 0>>

Emojis == {"like", "heart"}

\* editedAt: null
NullDate == 0

\* a media path never assigned (undefined), and the URL the blob store returns
Undefined == "undefined"
Url(kind) == kind

Kinds == {"image", "video", "audio"}
FileInputs == {{}, Kinds}
TextInputs == {<<" ">>, <<" ", "h", " ">>}
EditInputs == {<<" ">>, <<"e", " ">>}

VARIABLES
  userSocketMap,   \* presence registry: user -> socket or NoConn
  sockets,         \* sockets that connected and have not disconnected
  closed,          \* sockets that disconnected
  messages,        \* the Message collection, in creation order; _id = index
  reqs,            \* handler invocations in flight, by slot
  emits,           \* socket events emitted by the latest step
  resp,            \* HTTP response sent by the latest step
  offlineCreated,  \* history: ids whose creation found the receiver absent
  now,             \* the clock (Date)
  ops,             \* requests and presence changes admitted so far
  call,            \* the request or signal the latest step received, or NoCall
  typingUsers,     \* typing tracker: user -> whom they type to and since when
  droppedTyping    \* history: users whose typing entry a disconnect removed

VARIABLES
  selectedUser,    \* client: the open conversation's counterpart, or NoUser
  clientMessages,  \* client: the visible list (useChatStore messages)
  pendingMessages, \* client: ids of own messages just confirmed
  sends,           \* client: sendMessage calls, by number
  fetches,         \* client: getMessagesByUserId calls, by number
  timers,          \* client: the 2 s timers set and not yet fired, oldest first
  handled,         \* client: the newMessage event the latest step handled
  toast            \* client: the error toast the latest step showed

VARIABLES
  views,           \* each participant's screen: the records of its visible list
  inbox,           \* socket events sent to a participant and not yet handled
  replies          \* HTTP answers carrying a message, not yet handled

hubVars == <<userSocketMap, sockets, closed, messages, reqs, emits, resp,
             offlineCreated, now, ops, call, typingUsers, droppedTyping>>

\* the hub's state apart from the collection
hubRest == <<userSocketMap, sockets, closed, reqs, emits, resp,
             offlineCreated, now, ops, call, typingUsers, droppedTyping>>

clientVars == <<selectedUser, clientMessages, pendingMessages, sends, fetches,
                timers, handled, toast>>

syncVars == <<views, inbox, replies>>

vars == <<userSocketMap, sockets, closed, messages, reqs, emits, resp,
          offlineCreated, now, ops, call, typingUsers, selectedUser,
          clientMessages, pendingMessages, sends, fetches, timers, handled,
          toast, views, inbox, replies, droppedTyping>>

----------------------------------------------------------------------------
(* Helpers *)

Range(s) == {s[i] : i \in DOMAIN s}

RECURSIVE Filter(_, _)
\* s.filter(keep), keep given as the set of kept elements' indices
Filter(s, keepIdx) ==
  IF s = <<>> THEN <<>>
  ELSE LET n == Len(s)
           init == Filter(SubSeq(s, 1, n - 1), keepIdx)
       IN IF n \in keepIdx THEN Append(init, s[n]) ELSE init

IsSpace(ch) == ch = " "

RECURSIVE TrimStart(_)
TrimStart(s) == IF s # <<>> /\ IsSpace(Head(s)) THEN TrimStart(Tail(s)) ELSE s

RECURSIVE TrimEnd(_)
TrimEnd(s) ==
  IF s # <<>> /\ IsSpace(s[Len(s)]) THEN TrimEnd(SubSeq(s, 1, Len(s) - 1)) ELSE s

\* a text taken as it was sent
Untrimmed(s) == s

\* String.prototype.trim
Trim(s) == TrimEnd(TrimStart(s))

\* JavaScript truthiness of a media path
Falsy(x) == x \in {Undefined, ""}

Idle == [op |-> "idle"]
NoResp == [op |-> "none"]

FreeSlots == {s \in 1..MaxInFlight : reqs[s] = Idle}
\* a new invocation takes the lowest free slot
NewSlot == CHOOSE s \in FreeSlots : \A t \in FreeSlots : s <= t

Admit == ops < MaxOps /\ ops' = ops + 1

NoCall == [op |-> "none"]

\* no entry in typingUsers
NotTyping == [typingTo |-> NoUser, timestamp |-> NullDate]

MsgIds == 1..Len(messages)

----------------------------------------------------------------------------
(* Presence registry (socket.js) *)

getReceiverSocketId(userId) ==
  IF userId \in DOMAIN userSocketMap THEN userSocketMap[userId] ELSE NoConn

\* the keys the registry had before the step
OnlineUsersBefore(map) == {u \in DOMAIN userSocketMap : userSocketMap[u] # NoConn}

\* Object.keys(userSocketMap)
OnlineUsers(map) == {u \in DOMAIN map : map[u] # NoConn}

\* io.emit("getOnlineUsers", ...): to every connected socket
Broadcast(live, map) ==
  {[type |-> "getOnlineUsers", to |-> c, users |-> OnlineUsers(map)] : c \in live}

\* a registration that keeps the entry a user already has
RegisterIfAbsent(map, c) ==
  IF map[Owner(c)] = NoConn THEN [map EXCEPT ![Owner(c)] = c] ELSE map

\* userSocketMap[userId] = socket.id
Register(map, c) == [map EXCEPT ![Owner(c)] = c]

\* io.on("connection")
Connect(c) ==
  /\ c \notin sockets /\ c \notin closed
  /\ \A k \in 1..MaxConns : k < c[2] => <<c[1], k>> \in sockets \cup closed
  /\ Admit
  /\ call' = NoCall
  /\ userSocketMap' = Register(userSocketMap, c)
  /\ sockets' = sockets \cup {c}
  /\ emits' = Broadcast(sockets', userSocketMap')
  /\ resp' = NoResp
  /\ UNCHANGED <<closed, messages, reqs, offlineCreated, now>>

\* a disconnect that leaves the registry as it is
StayRegistered(map, c) == map

\* delete userSocketMap[userId]
Unregister(map, c) == [map EXCEPT ![Owner(c)] = NoConn]

\* a disconnect that leaves the tracker as it is
KeepEntry(entries, userId) == entries

\* delete typingUsers[userId]
WithoutEntry(entries, userId) == [entries EXCEPT ![userId] = NotTyping]

\* socket.on("disconnect")
Disconnect(c) ==
  /\ c \in sockets
  /\ Admit
  /\ call' = NoCall
  /\ userSocketMap' = Unregister(userSocketMap, c)
  /\ sockets' = sockets \ {c}
  /\ closed' = closed \cup {c}
  /\ typingUsers' = WithoutEntry(typingUsers, Owner(c))
  /\ droppedTyping' = IF typingUsers[Owner(c)] # NotTyping
                      THEN droppedTyping \cup {Owner(c)}
                      ELSE droppedTyping
  /\ emits' = Broadcast(sockets', userSocketMap')
  /\ resp' = NoResp
  /\ UNCHANGED <<messages, reqs, offlineCreated, now>>

----------------------------------------------------------------------------
(* Typing tracker *)

\* the idle window of the sweep, and the period of its interval, in ms
TypingTimeoutMs == 3000
SweepIntervalMs == 1000

LastTime == 1 + MaxTicks * SweepIntervalMs

StoppedTyping(uid, receiverId) ==
  IF getReceiverSocketId(receiverId) # NoConn
  THEN {[type |-> "userStoppedTyping", to |-> getReceiverSocketId(receiverId),
         userId |-> uid]}
  ELSE {}

\* socket.on("typing"), sent early enough for the clock to outrun the window
Typing(c, receiverId) ==
  /\ c \in sockets
  /\ now + TypingTimeoutMs + SweepIntervalMs <= LastTime
  /\ Admit
  /\ call' = [op |-> "typing", user |-> Owner(c), id |-> receiverId]
  /\ typingUsers' = [typingUsers EXCEPT ![Owner(c)] =
                       [typingTo |-> receiverId, timestamp |-> now]]
  /\ emits' = IF getReceiverSocketId(receiverId) # NoConn
              THEN {[type |-> "userTyping", to |-> getReceiverSocketId(receiverId),
                     userId |-> Owner(c)]}
              ELSE {}
  /\ resp' = NoResp
  /\ UNCHANGED <<userSocketMap, sockets, closed, messages, reqs,
                 offlineCreated, now>>

\* socket.on("stopTyping")
StopTyping(c, receiverId) ==
  /\ c \in sockets
  /\ Admit
  /\ call' = [op |-> "stopTyping", user |-> Owner(c), id |-> receiverId]
  /\ typingUsers' = [typingUsers EXCEPT ![Owner(c)] = NotTyping]
  /\ emits' = StoppedTyping(Owner(c), receiverId)
  /\ resp' = NoResp
  /\ UNCHANGED <<userSocketMap, sockets, closed, messages, reqs,
                 offlineCreated, now>>

\* a test that lets the sweep remove an entry as soon as the window is reached
ExpiredAtWindow(typingData, date) ==
  /\ typingData # NotTyping
  /\ date - typingData.timestamp >= TypingTimeoutMs

\* now - typingData.timestamp > 3000
Expired(typingData, date) ==
  /\ typingData # NotTyping
  /\ date - typingData.timestamp > TypingTimeoutMs

\* one run of the typingCleanupInterval callback
Sweep ==
  LET expired == {uid \in Users : Expired(typingUsers[uid], now)}
  IN /\ typingUsers' = [uid \in Users |->
                          IF uid \in expired THEN NotTyping ELSE typingUsers[uid]]
     /\ emits' = UNION {StoppedTyping(uid, typingUsers[uid].typingTo) :
                          uid \in expired}
     /\ resp' = NoResp
     /\ call' = NoCall
     /\ UNCHANGED <<userSocketMap, sockets, closed, messages, reqs,
                    offlineCreated, now, ops>>

\* a second passes
Tick ==
  /\ now + SweepIntervalMs <= LastTime
  /\ now' = now + SweepIntervalMs
  /\ emits' = {}
  /\ resp' = NoResp
  /\ call' = NoCall
  /\ UNCHANGED <<userSocketMap, sockets, closed, messages, reqs,
                 offlineCreated, ops, typingUsers>>

----------------------------------------------------------------------------
(* Message collection *)

\* a new message that is not marked delivered to its author
NewMessageUndelivered(senderId, receiverId, text, files) ==
  [senderId |-> senderId, receiverId |-> receiverId,
   text |-> Trim(text),
   image |-> IF "image" \in files THEN Url("image") ELSE Undefined,
   video |-> IF "video" \in files THEN Url("video") ELSE Undefined,
   audio |-> IF "audio" \in files THEN Url("audio") ELSE Undefined,
   edited |-> FALSE, editedAt |-> NullDate,
   deletedForMe |-> <<>>, deletedForEveryone |-> FALSE,
   reactions |-> <<>>, readBy |-> <<>>,
   deliveredTo |-> <<>>,
   v |-> 0]

NewMessage(senderId, receiverId, text, files) ==
  [senderId |-> senderId, receiverId |-> receiverId,
   text |-> Trim(text),
   image |-> IF "image" \in files THEN Url("image") ELSE Undefined,
   video |-> IF "video" \in files THEN Url("video") ELSE Undefined,
   audio |-> IF "audio" \in files THEN Url("audio") ELSE Undefined,
   edited |-> FALSE, editedAt |-> NullDate,
   deletedForMe |-> <<>>, deletedForEveryone |-> FALSE,
   reactions |-> <<>>, readBy |-> <<>>,
   deliveredTo |-> <<senderId>>,
   v |-> 0]

\* the document as the handler holds it: the stored fields and its _id
Loaded(id) == [id |-> id, doc |-> messages[id]]

----------------------------------------------------------------------------
(* sendMessage *)

\* a test of the text as sent, spaces included
IsEmptyUntrimmed(text, files) == text = <<>> /\ files = {}

\* !text?.trim() && !files?.image && !files?.video && !files?.audio
IsEmptyContent(text, files) == Trim(text) = <<>> /\ files = {}

\* rejected before anything is stored: 400, 404, or 500 when an upload fails
SendMessageReject(senderId, receiverId, text, files, uploadOk) ==
  LET status ==
        IF IsEmptyContent(text, files) THEN 400
        ELSE IF senderId = receiverId THEN 400
        ELSE IF receiverId \notin Users THEN 404
        ELSE IF files # {} /\ ~uploadOk THEN 500
        ELSE 0
  IN /\ status # 0
     /\ Admit
     /\ call' = [op |-> "sendMessage", user |-> senderId, id |-> receiverId,
                   text |-> text, files |-> files]
     /\ resp' = [op |-> "sendMessage", user |-> senderId, status |-> status]
     /\ emits' = {}
     /\ UNCHANGED <<userSocketMap, sockets, closed, messages, reqs,
                    offlineCreated, now>>

\* validation, uploads, new Message(...), await newMessage.save()
SendMessageSave(senderId, receiverId, text, files) ==
  /\ ~IsEmptyContent(text, files)
  /\ senderId # receiverId
  /\ receiverId \in Users
  /\ Len(messages) < MaxMsgs
  /\ FreeSlots # {}
  /\ Admit
  /\ call' = [op |-> "sendMessage", user |-> senderId, id |-> receiverId,
                text |-> text, files |-> files]
  /\ messages' = Append(messages, NewMessage(senderId, receiverId, text, files))
  /\ reqs' = [reqs EXCEPT ![NewSlot] =
                [op |-> "sendMessage", pc |-> "emit", user |-> senderId,
                 id |-> Len(messages) + 1,
                 doc |-> NewMessage(senderId, receiverId, text, files)]]
  /\ emits' = {}
  /\ resp' = NoResp
  /\ UNCHANGED <<userSocketMap, sockets, closed, offlineCreated, now>>

\* the sockets sendMessage emits newMessage to, echoing to the sender too
NewMessageTargetsEcho(doc) ==
  {getReceiverSocketId(u) : u \in {doc.receiverId, doc.senderId}} \ {NoConn}

\* the sockets sendMessage emits newMessage to: the receiver's, when registered
NewMessageTargets(doc) == {getReceiverSocketId(doc.receiverId)} \ {NoConn}

\* after the populate awaits: look the receiver up, emit, answer 201
SendMessageEmit(s) ==
  LET r == reqs[s]
  IN /\ r.op = "sendMessage" /\ r.pc = "emit"
     /\ emits' = {[type |-> "newMessage", to |-> c, id |-> r.id,
                   message |-> r.doc] : c \in NewMessageTargets(r.doc)}
     /\ offlineCreated' = IF getReceiverSocketId(r.doc.receiverId) = NoConn
                          THEN offlineCreated \cup {r.id}
                          ELSE offlineCreated
     /\ resp' = [op |-> "sendMessage", user |-> r.user, status |-> 201,
                 id |-> r.id, message |-> r.doc]
     /\ reqs' = [reqs EXCEPT ![s] = Idle]
     /\ UNCHANGED <<userSocketMap, sockets, closed, messages, now, ops>>
     /\ call' = NoCall

----------------------------------------------------------------------------
(* What save() writes *)

ScalarPaths ==
  {"text", "image", "video", "audio", "edited", "editedAt", "deletedForEveryone"}

\* a save() that overwrites the stored document with the handler's copy
SaveSetWhole(stored, loaded, local) == local

\* save() of a document whose modified paths are scalars: $set of the paths
\* whose value the handler changed, every other stored path left as it is
SaveSet(stored, loaded, local) ==
  [f \in DOMAIN stored |->
     IF f \in ScalarPaths /\ local[f] # loaded[f] THEN local[f] ELSE stored[f]]

\* a save() that writes the array as holding the pushed entry alone
SavePushAlone(stored, path, entry) ==
  [stored EXCEPT ![path] = <<entry>>, !.v = @ + 1]

\* save() after array.push(entry): $push, __v incremented
SavePush(stored, path, entry) ==
  [stored EXCEPT ![path] = Append(@, entry), !.v = @ + 1]

\* save() after an array was assigned as a whole: the update matches the
\* document only while __v has the loaded value
VersionOk(stored, loaded) == stored.v = loaded.v

SaveSetArray(stored, path, arr) == [stored EXCEPT ![path] = arr, !.v = @ + 1]

\* io.to(socketId).emit(type, message) for the receiver and for the sender
EmitToBoth(type, id, doc) ==
  {[type |-> type, to |-> getReceiverSocketId(u), id |-> id, message |-> doc] :
     u \in {x \in {doc.receiverId, doc.senderId} : getReceiverSocketId(x) # NoConn}}

\* a handler that answers without leaving anything in flight
Answer(op, userId, status) ==
  /\ resp' = [op |-> op, user |-> userId, status |-> status]
  /\ emits' = {}
  /\ UNCHANGED <<userSocketMap, sockets, closed, messages, reqs,
                 offlineCreated, now>>

\* a handler that suspends at its save()
Suspend(r) ==
  /\ FreeSlots # {}
  /\ reqs' = [reqs EXCEPT ![NewSlot] = r]
  /\ emits' = {}
  /\ resp' = NoResp
  /\ UNCHANGED <<userSocketMap, sockets, closed, messages, offlineCreated, now>>

\* a lookup that addresses a receipt to the message's receiver
ReceiverSocketId(doc) == getReceiverSocketId(doc.receiverId)

\* const senderSocketId = getReceiverSocketId(senderId): where receipts go
SenderSocketId(doc) == getReceiverSocketId(doc.senderId)

----------------------------------------------------------------------------
(* getMessagesByUserId *)

\* a query that matches only the messages a sent to b
InConversationOneWay(doc, a, b) == doc.senderId = a /\ doc.receiverId = b

InConversation(doc, a, b) ==
  \/ doc.senderId = a /\ doc.receiverId = b
  \/ doc.senderId = b /\ doc.receiverId = a

\* a test that hides a message from everybody once anybody has deleted it
IsDeletedForSomeone(doc, myId) == doc.deletedForMe # <<>>

\* msg.deletedForMe?.some((d) => d.userId?.toString() === myId.toString())
IsDeletedForMe(doc, myId) == myId \in Range(doc.deletedForMe)

\* the messages array: the conversation, oldest first, without those deleted for me
VisibleTo(myId, userToChatId) ==
  LET all == [i \in MsgIds |-> Loaded(i)]
  IN Filter(all, {i \in MsgIds :
                    /\ InConversation(messages[i], myId, userToChatId)
                    /\ ~IsDeletedForMe(messages[i], myId)})

\* an unread filter that ignores deliveredTo
IsUnreadAlways(doc, myId) == doc.receiverId = myId

IsUnread(doc, myId) ==
  doc.receiverId = myId /\ myId \notin Range(doc.deliveredTo)

\* positions in `found` of the messages to mark delivered
UnreadMessages(found, myId) ==
  {i \in DOMAIN found : IsUnread(found[i].doc, myId)}

\* await Message.find(...); filters; with nothing to mark, the answer
GetMessagesFind(myId, userToChatId) ==
  LET found == VisibleTo(myId, userToChatId)
      unread == UnreadMessages(found, myId)
  IN /\ Admit
     /\ call' = [op |-> "getMessages", user |-> myId, id |-> userToChatId]
     /\ IF unread = {}
        THEN /\ resp' = [op |-> "getMessages", user |-> myId, status |-> 200,
                         peer |-> userToChatId, body |-> found]
             /\ emits' = {}
             /\ UNCHANGED <<userSocketMap, sockets, closed, messages, reqs,
                            offlineCreated, now>>
        ELSE Suspend([op |-> "getMessages", pc |-> "save", user |-> myId,
                      peer |-> userToChatId, found |-> found,
                      todo |-> unread])

\* msg.deliveredTo.push({ userId: myId }); await msg.save()
GetMessagesSave(s) ==
  LET r == reqs[s]
      i == CHOOSE i \in r.todo : \A j \in r.todo : i <= j
      id == r.found[i].id
  IN /\ r.op = "getMessages" /\ r.pc = "save"
     /\ messages' = [messages EXCEPT ![id] = SavePush(@, "deliveredTo", r.user)]
     /\ reqs' = [reqs EXCEPT ![s] =
                   [r EXCEPT !.pc = "emit",
                             !.found[i].doc.deliveredTo = Append(@, r.user)]]
     /\ emits' = {}
     /\ resp' = NoResp
     /\ UNCHANGED <<userSocketMap, sockets, closed, offlineCreated, now, ops>>
     /\ call' = NoCall

\* emit messageDelivered to the sender; next message, or the answer
GetMessagesEmit(s) ==
  LET r == reqs[s]
      i == CHOOSE i \in r.todo : \A j \in r.todo : i <= j
      msg == r.found[i]
      senderSocketId == SenderSocketId(msg.doc)
      rest == r.todo \ {i}
  IN /\ r.op = "getMessages" /\ r.pc = "emit"
     /\ emits' = IF senderSocketId # NoConn
                 THEN {[type |-> "messageDelivered", to |-> senderSocketId,
                        id |-> msg.id, userId |-> r.user]}
                 ELSE {}
     /\ IF rest = {}
        THEN /\ resp' = [op |-> "getMessages", user |-> r.user, status |-> 200,
                         peer |-> r.peer, body |-> r.found]
             /\ reqs' = [reqs EXCEPT ![s] = Idle]
        ELSE /\ resp' = NoResp
             /\ reqs' = [reqs EXCEPT ![s] = [r EXCEPT !.pc = "save", !.todo = rest]]
     /\ UNCHANGED <<userSocketMap, sockets, closed, messages, offlineCreated,
                    now, ops>>
     /\ call' = NoCall

----------------------------------------------------------------------------
(* markMessageAsRead *)

\* a test that never finds the user among the readers
NeverRead(doc, userId) == FALSE

\* message.readBy.some((r) => r.userId.toString() === userId.toString())
AlreadyRead(doc, userId) == userId \in Range(doc.readBy)

\* await Message.findById; 404, or 200 at once when already read
MarkMessageAsReadLoad(userId, messageId) ==
  /\ Admit
  /\ call' = [op |-> "markMessageAsRead", user |-> userId, id |-> messageId]
  /\ IF messageId \notin MsgIds
     THEN Answer("markMessageAsRead", userId, 404)
     ELSE IF AlreadyRead(messages[messageId], userId)
     THEN Answer("markMessageAsRead", userId, 200)
     ELSE Suspend([op |-> "markMessageAsRead", pc |-> "save", user |-> userId,
                   id |-> messageId, loaded |-> messages[messageId],
                   doc |-> [messages[messageId] EXCEPT
                              !.readBy = Append(@, userId)]])

\* await message.save()
MarkMessageAsReadSave(s) ==
  LET r == reqs[s]
  IN /\ r.op = "markMessageAsRead" /\ r.pc = "save"
     /\ messages' = [messages EXCEPT ![r.id] = SavePush(@, "readBy", r.user)]
     /\ reqs' = [reqs EXCEPT ![s].pc = "emit"]
     /\ emits' = {}
     /\ resp' = NoResp
     /\ UNCHANGED <<userSocketMap, sockets, closed, offlineCreated, now, ops>>
     /\ call' = NoCall

\* emit messageRead to the sender, answer 200
MarkMessageAsReadEmit(s) ==
  LET r == reqs[s]
      senderSocketId == SenderSocketId(r.doc)
  IN /\ r.op = "markMessageAsRead" /\ r.pc = "emit"
     /\ emits' = IF senderSocketId # NoConn
                 THEN {[type |-> "messageRead", to |-> senderSocketId,
                        id |-> r.id, userId |-> r.user]}
                 ELSE {}
     /\ resp' = [op |-> "markMessageAsRead", user |-> r.user, status |-> 200]
     /\ reqs' = [reqs EXCEPT ![s] = Idle]
     /\ UNCHANGED <<userSocketMap, sockets, closed, messages, offlineCreated,
                    now, ops>>
     /\ call' = NoCall

----------------------------------------------------------------------------
(* addReaction, removeReaction *)

\* message.reactions.filter((r) => r.userId !== userId)
WithoutReactionOf(reactions, userId) ==
  Filter(reactions, {i \in DOMAIN reactions : reactions[i].userId # userId})

\* the reactions array addReaction builds
ReactionsAfterAdd(reactions, userId, emoji) ==
  Append(WithoutReactionOf(reactions, userId), [userId |-> userId, emoji |-> emoji])

\* what save() will send for the reactions path.  Assigning the filtered array
\* marks the path modified only if it differs from the loaded one: then the
\* whole array is $set.  Otherwise addReaction's push is sent as a $push,
\* and removeReaction has nothing to write.
ReactionsWrite(loaded, userId, op) ==
  IF WithoutReactionOf(loaded, userId) # loaded THEN "set"
  ELSE IF op = "addReaction" THEN "push" ELSE "none"

AddReactionLoad(userId, messageId, emoji) ==
  /\ Admit
  /\ call' = [op |-> "addReaction", user |-> userId, id |-> messageId,
                emoji |-> emoji]
  /\ IF messageId \notin MsgIds
     THEN Answer("addReaction", userId, 404)
     ELSE Suspend([op |-> "addReaction", pc |-> "save", user |-> userId,
                   id |-> messageId, emoji |-> emoji,
                   loaded |-> messages[messageId],
                   write |-> ReactionsWrite(messages[messageId].reactions,
                                            userId, "addReaction"),
                   doc |-> [messages[messageId] EXCEPT
                              !.reactions = ReactionsAfterAdd(@, userId, emoji)]])

RemoveReactionLoad(userId, messageId) ==
  /\ Admit
  /\ call' = [op |-> "removeReaction", user |-> userId, id |-> messageId]
  /\ IF messageId \notin MsgIds
     THEN Answer("removeReaction", userId, 404)
     ELSE Suspend([op |-> "removeReaction", pc |-> "save", user |-> userId,
                   id |-> messageId, loaded |-> messages[messageId],
                   write |-> ReactionsWrite(messages[messageId].reactions,
                                            userId, "removeReaction"),
                   doc |-> [messages[messageId] EXCEPT
                              !.reactions = WithoutReactionOf(@, userId)]])

\* await message.save(): a $push, or a $set of the whole array that fails with
\* VersionError (500) when __v moved, or nothing
ReactionSave(s) ==
  LET r == reqs[s]
  IN /\ r.op \in {"addReaction", "removeReaction"} /\ r.pc = "save"
     /\ emits' = {}
     /\ IF r.write = "none"
        THEN /\ reqs' = [reqs EXCEPT ![s].pc = "emit"]
             /\ resp' = NoResp
             /\ UNCHANGED messages
        ELSE IF r.write = "push"
        THEN /\ messages' = [messages EXCEPT ![r.id] =
                               SavePush(@, "reactions",
                                        [userId |-> r.user, emoji |-> r.emoji])]
             /\ reqs' = [reqs EXCEPT ![s].pc = "emit"]
             /\ resp' = NoResp
        ELSE IF VersionOk(messages[r.id], r.loaded)
        THEN /\ messages' = [messages EXCEPT ![r.id] =
                               SaveSetArray(@, "reactions", r.doc.reactions)]
             /\ reqs' = [reqs EXCEPT ![s].pc = "emit"]
             /\ resp' = NoResp
        ELSE /\ resp' = [op |-> r.op, user |-> r.user, status |-> 500]
             /\ reqs' = [reqs EXCEPT ![s] = Idle]
             /\ UNCHANGED messages
     /\ UNCHANGED <<userSocketMap, sockets, closed, offlineCreated, now, ops>>
     /\ call' = NoCall

\* emit reactionAdded / reactionRemoved to both participants, answer 200
ReactionEmit(s) ==
  LET r == reqs[s]
  IN /\ r.op \in {"addReaction", "removeReaction"} /\ r.pc = "emit"
     /\ emits' = EmitToBoth(IF r.op = "addReaction" THEN "reactionAdded"
                            ELSE "reactionRemoved", r.id, r.doc)
     /\ resp' = [op |-> r.op, user |-> r.user, status |-> 200,
                 id |-> r.id, message |-> r.doc]
     /\ reqs' = [reqs EXCEPT ![s] = Idle]
     /\ UNCHANGED <<userSocketMap, sockets, closed, messages, offlineCreated,
                    now, ops>>
     /\ call' = NoCall

----------------------------------------------------------------------------
(* editMessage *)

\* an edit that dates the message the first time only
EditedOnce(doc, text, date) ==
  [doc EXCEPT !.text = Trim(text), !.edited = TRUE,
              !.editedAt = IF doc.edited THEN @ ELSE date]

\* message.text = text.trim(); message.edited = true; message.editedAt = new Date()
Edited(doc, text, date) ==
  [doc EXCEPT !.text = Trim(text), !.edited = TRUE, !.editedAt = date]

\* a test that lets both participants of the message pass
IsParticipantOfEdited(doc, userId) == userId \in {doc.senderId, doc.receiverId}

\* message.senderId.toString() === userId.toString()
IsOwnMessage(doc, userId) == doc.senderId = userId

\* a test that refuses only a text that is missing
IsMissingText(text) == text = <<>>

\* !text || !text.trim()
IsBlankText(text) == text = <<>> \/ Trim(text) = <<>>

EditMessageLoad(userId, messageId, text) ==
  /\ Admit
  /\ call' = [op |-> "editMessage", user |-> userId, id |-> messageId,
                text |-> text]
  /\ IF IsBlankText(text)
     THEN Answer("editMessage", userId, 400)
     ELSE IF messageId \notin MsgIds
     THEN Answer("editMessage", userId, 404)
     ELSE IF ~IsOwnMessage(messages[messageId], userId)
     THEN Answer("editMessage", userId, 403)
     ELSE IF messages[messageId].deletedForEveryone
     THEN Answer("editMessage", userId, 400)
     ELSE Suspend([op |-> "editMessage", pc |-> "save", user |-> userId,
                   id |-> messageId, loaded |-> messages[messageId],
                   doc |-> Edited(messages[messageId], text, now)])

----------------------------------------------------------------------------
(* deleteMessage *)

\* the tombstone deleteMessage writes
Tombstone(doc) ==
  [doc EXCEPT !.deletedForEveryone = TRUE, !.text = <<>>,
              !.image = "", !.video = "", !.audio = ""]

\* a test that lets both participants of the message pass
IsParticipant(doc, userId) == userId \in {doc.senderId, doc.receiverId}

\* const isSender = message.senderId.toString() === userId.toString()
isSender(doc, userId) == doc.senderId = userId

DeleteMessageLoad(userId, messageId, deleteForEveryone) ==
  /\ Admit
  /\ call' = [op |-> "deleteMessage", user |-> userId, id |-> messageId,
                deleteForEveryone |-> deleteForEveryone]
  /\ IF messageId \notin MsgIds
     THEN Answer("deleteMessage", userId, 404)
     ELSE IF deleteForEveryone
     THEN IF ~isSender(messages[messageId], userId)
          THEN Answer("deleteMessage", userId, 403)
          ELSE Suspend([op |-> "deleteForEveryone", pc |-> "save", user |-> userId,
                        id |-> messageId, loaded |-> messages[messageId],
                        doc |-> Tombstone(messages[messageId])])
     ELSE IF IsDeletedForMe(messages[messageId], userId)
     THEN Suspend([op |-> "deleteForMe", pc |-> "emit", user |-> userId,
                   id |-> messageId, loaded |-> messages[messageId],
                   doc |-> messages[messageId]])
     ELSE Suspend([op |-> "deleteForMe", pc |-> "save", user |-> userId,
                   id |-> messageId, loaded |-> messages[messageId],
                   doc |-> [messages[messageId] EXCEPT
                              !.deletedForMe = Append(@, userId)]])

\* await message.save() of editMessage and of delete for everyone
ScalarSave(s) ==
  LET r == reqs[s]
  IN /\ r.op \in {"editMessage", "deleteForEveryone"} /\ r.pc = "save"
     /\ messages' = [messages EXCEPT ![r.id] = SaveSet(@, r.loaded, r.doc)]
     /\ reqs' = [reqs EXCEPT ![s].pc = "emit"]
     /\ emits' = {}
     /\ resp' = NoResp
     /\ UNCHANGED <<userSocketMap, sockets, closed, offlineCreated, now, ops>>
     /\ call' = NoCall

\* emit messageEdited / messageDeleted to both participants, answer 200
ScalarEmit(s) ==
  LET r == reqs[s]
  IN /\ r.op \in {"editMessage", "deleteForEveryone"} /\ r.pc = "emit"
     /\ emits' = EmitToBoth(IF r.op = "editMessage" THEN "messageEdited"
                            ELSE "messageDeleted", r.id, r.doc)
     /\ resp' = [op |-> r.op, user |-> r.user, status |-> 200,
                 id |-> r.id, message |-> r.doc]
     /\ reqs' = [reqs EXCEPT ![s] = Idle]
     /\ UNCHANGED <<userSocketMap, sockets, closed, messages, offlineCreated,
                    now, ops>>
     /\ call' = NoCall

\* message.deletedForMe.push({ userId }); await message.save()
DeleteForMeSave(s) ==
  LET r == reqs[s]
  IN /\ r.op = "deleteForMe" /\ r.pc = "save"
     /\ messages' = [messages EXCEPT ![r.id] = SavePush(@, "deletedForMe", r.user)]
     /\ reqs' = [reqs EXCEPT ![s].pc = "emit"]
     /\ emits' = {}
     /\ resp' = NoResp
     /\ UNCHANGED <<userSocketMap, sockets, closed, offlineCreated, now, ops>>
     /\ call' = NoCall

\* emit messageDeletedForMe to the requesting user's socket only, answer 200
DeleteForMeEmit(s) ==
  LET r == reqs[s]
      userSocketId == getReceiverSocketId(r.user)
  IN /\ r.op = "deleteForMe" /\ r.pc = "emit"
     /\ emits' = IF userSocketId # NoConn
                 THEN {[type |-> "messageDeletedForMe", to |-> userSocketId,
                        id |-> r.id, message |-> r.doc]}
                 ELSE {}
     /\ resp' = [op |-> "deleteMessage", user |-> r.user, status |-> 200,
                 id |-> r.id, message |-> r.doc]
     /\ reqs' = [reqs EXCEPT ![s] = Idle]
     /\ UNCHANGED <<userSocketMap, sockets, closed, messages, offlineCreated,
                    now, ops>>
     /\ call' = NoCall

----------------------------------------------------------------------------
(* The client store (useChatStore.js) of user Me.  Its requests are answered
   by the collection: a creation appends NewMessage, a conversation load
   returns VisibleTo.  Responses and socket events reach the client in any
   order. *)

\* authUser._id
Me == "A"
Peers == Users \ {Me}

RealId(k) == <<"id", k>>
\* `temp-${Date.now()}-${Math.random()}` of the n-th sendMessage call
TempId(n) == <<"temp", n>>

Unused == [st |-> "unused"]
Done == [st |-> "done"]
NoEvent == [type |-> "none"]
NoToast == [op |-> "none"]

\* the text the message input submits
ClientText == <<"h">>

\* the placeholder sendMessage shows
OptimisticMessage(n, to) ==
  [_id |-> TempId(n), isOptimistic |-> TRUE,
   doc |-> [senderId |-> Me, receiverId |-> to, text |-> ClientText,
            image |-> Undefined, video |-> Undefined, audio |-> Undefined,
            reactions |-> <<>>, readBy |-> <<>>, deliveredTo |-> <<>>]]

\* a record of the collection as the client holds it
Authoritative(id, doc) == [_id |-> RealId(id), isOptimistic |-> FALSE, doc |-> doc]

VisibleIds(list) == {list[i]._id : i \in DOMAIN list}

FirstUnused(f) == CHOOSE n \in DOMAIN f : f[n] = Unused /\ \A k \in DOMAIN f : k < n => f[k] # Unused

\* setSelectedUser, and the load ChatContainer starts when the id changed
SetSelectedUser(u) ==
  /\ selectedUser' = u
  /\ clientMessages' = <<>>
  /\ pendingMessages' = {}
  /\ IF u # NoUser /\ u # selectedUser
     THEN /\ \E k \in DOMAIN fetches : fetches[k] = Unused
          /\ fetches' = [fetches EXCEPT ![FirstUnused(fetches)] =
                           [st |-> "sent", peer |-> u]]
     ELSE /\ selectedUser # NoUser
          /\ UNCHANGED fetches
  /\ handled' = NoEvent
  /\ toast' = NoToast
  /\ UNCHANGED <<sends, timers, messages, hubRest>>

\* GET /messages/:id answered by the collection
FetchServed(k) ==
  /\ fetches[k] # Unused /\ fetches[k].st = "sent"
  /\ fetches' = [fetches EXCEPT ![k] =
                   [st |-> "answered", peer |-> fetches[k].peer,
                    body |-> VisibleTo(Me, fetches[k].peer)]]
  /\ handled' = NoEvent
  /\ toast' = NoToast
  /\ UNCHANGED <<selectedUser, clientMessages, pendingMessages, sends, timers,
                 messages, hubRest>>

\* getMessagesByUserId after its await: set({ messages: res.data, pendingMessages: new Set() })
FetchResolved(k) ==
  /\ fetches[k] # Unused /\ fetches[k].st = "answered"
  /\ clientMessages' = [i \in DOMAIN fetches[k].body |->
                          Authoritative(fetches[k].body[i].id, fetches[k].body[i].doc)]
  /\ pendingMessages' = {}
  /\ fetches' = [fetches EXCEPT ![k] = Done]
  /\ handled' = NoEvent
  /\ toast' = NoToast
  /\ UNCHANGED <<selectedUser, sends, timers, messages, hubRest>>

\* getMessagesByUserId's catch: a toast, the list untouched
FetchFailed(k) ==
  /\ fetches[k] # Unused /\ fetches[k].st = "sent"
  /\ fetches' = [fetches EXCEPT ![k] = Done]
  /\ handled' = NoEvent
  /\ toast' = [op |-> "getMessagesByUserId"]
  /\ UNCHANGED <<selectedUser, clientMessages, pendingMessages, sends, timers,
                 messages, hubRest>>

\* sendMessage up to its await: the snapshot of the store, the placeholder
ClientSend ==
  /\ selectedUser # NoUser
  /\ \E n \in DOMAIN sends : sends[n] = Unused
  /\ LET n == FirstUnused(sends)
     IN /\ clientMessages' = Append(clientMessages, OptimisticMessage(n, selectedUser))
        /\ sends' = [sends EXCEPT ![n] =
                       [st |-> "posted", to |-> selectedUser,
                        pendingMessages |-> pendingMessages]]
  /\ handled' = NoEvent
  /\ toast' = NoToast
  /\ UNCHANGED <<selectedUser, pendingMessages, fetches, timers, messages, hubRest>>

\* POST /messages/send/:id stored by the hub
SendStored(n) ==
  /\ sends[n] # Unused /\ sends[n].st = "posted"
  /\ Len(messages) < MaxMsgs
  /\ messages' = Append(messages, NewMessage(Me, sends[n].to, ClientText, {}))
  /\ sends' = [sends EXCEPT ![n] =
                 [st |-> "created", to |-> sends[n].to,
                  pendingMessages |-> sends[n].pendingMessages,
                  id |-> Len(messages) + 1,
                  doc |-> NewMessage(Me, sends[n].to, ClientText, {})]]
  /\ handled' = NoEvent
  /\ toast' = NoToast
  /\ UNCHANGED <<selectedUser, clientMessages, pendingMessages, fetches, timers,
                 hubRest>>

\* POST /messages/send/:id refused, or the request lost
SendRefused(n) ==
  /\ sends[n] # Unused /\ sends[n].st = "posted"
  /\ sends' = [sends EXCEPT ![n] = [st |-> "failed"]]
  /\ handled' = NoEvent
  /\ toast' = NoToast
  /\ UNCHANGED <<selectedUser, clientMessages, pendingMessages, fetches, timers,
                 messages, hubRest>>

\* a replacement that takes the placeholder out and puts the record last
MoveToEnd(list, tempId, realMessage) ==
  IF tempId \in {list[i]._id : i \in DOMAIN list}
  THEN Append(Filter(list, {i \in DOMAIN list : list[i]._id # tempId}), realMessage)
  ELSE list

\* currentMessages.map((msg) => msg._id === tempId ? realMessage : msg)
ReplaceOptimistic(list, tempId, realMessage) ==
  [i \in DOMAIN list |-> IF list[i]._id = tempId THEN realMessage ELSE list[i]]

\* sendMessage after its await, on success
SendResolved(n) ==
  /\ sends[n] # Unused /\ sends[n].st = "created"
  /\ pendingMessages' = sends[n].pendingMessages \cup {RealId(sends[n].id)}
  /\ clientMessages' = ReplaceOptimistic(clientMessages, TempId(n),
                                         Authoritative(sends[n].id, sends[n].doc))
  /\ timers' = Append(timers, n)
  /\ sends' = [sends EXCEPT ![n] = [st |-> "timer", id |-> sends[n].id]]
  /\ handled' = NoEvent
  /\ toast' = NoToast
  /\ UNCHANGED <<selectedUser, fetches, messages, hubRest>>

\* a rollback that drops the newest entry of the list
WithoutNewest(list, tempId) ==
  IF list = <<>> THEN list ELSE SubSeq(list, 1, Len(list) - 1)

\* currentMessages.filter((msg) => msg._id !== tempId)
WithoutOptimistic(list, tempId) ==
  Filter(list, {i \in DOMAIN list : list[i]._id # tempId})

\* sendMessage's catch: the placeholder removed, the error shown
SendRejected(n) ==
  /\ sends[n] # Unused /\ sends[n].st = "failed"
  /\ clientMessages' = WithoutOptimistic(clientMessages, TempId(n))
  /\ sends' = [sends EXCEPT ![n] = Done]
  /\ handled' = NoEvent
  /\ toast' = [op |-> "sendMessage"]
  /\ UNCHANGED <<selectedUser, pendingMessages, fetches, timers, messages, hubRest>>

\* the setTimeout(..., 2000) callback of the oldest pending timer
PendingTimeout ==
  /\ timers # <<>>
  /\ LET n == Head(timers)
     IN /\ pendingMessages' = pendingMessages \ {RealId(sends[n].id)}
        /\ sends' = [sends EXCEPT ![n] = Done]
  /\ timers' = Tail(timers)
  /\ handled' = NoEvent
  /\ toast' = NoToast
  /\ UNCHANGED <<selectedUser, clientMessages, fetches, messages, hubRest>>

\* a message of one of Me's conversations created from elsewhere: by the
\* counterpart, or by another session of Me
CreatedElsewhere(senderId, receiverId) ==
  /\ Me \in {senderId, receiverId} /\ senderId # receiverId
  /\ Len(messages) < MaxMsgs
  /\ messages' = Append(messages, NewMessage(senderId, receiverId, ClientText, {}))
  /\ handled' = NoEvent
  /\ toast' = NoToast
  /\ UNCHANGED <<selectedUser, clientMessages, pendingMessages, sends, fetches,
                 timers, hubRest>>

\* a handler that appends whatever the open conversation's counterpart sent
AcceptsFromSelectedUser(newMessage, list, pending) ==
  newMessage.doc.senderId = selectedUser

\* a test that takes a message from any sender
AcceptsFromAnyone(newMessage, list, pending) ==
  /\ selectedUser # NoUser
  /\ newMessage._id \notin VisibleIds(list)
  /\ newMessage._id \notin pending

\* handleNewMessage's test: a conversation is open, the message is from its
\* counterpart, not in the list, not pending
AcceptsNewMessage(newMessage, list, pending) ==
  /\ selectedUser # NoUser
  /\ newMessage.doc.senderId = selectedUser
  /\ newMessage._id \notin VisibleIds(list)
  /\ newMessage._id \notin pending

\* socket.on("newMessage", handleNewMessage), for an event carrying a stored
\* message of one of Me's conversations, delivered or replayed
HandleNewMessage(id) ==
  LET newMessage == Authoritative(id, messages[id])
      accepts == AcceptsNewMessage(newMessage, clientMessages, pendingMessages)
  IN /\ id \in MsgIds
     /\ Me \in {messages[id].senderId, messages[id].receiverId}
     /\ clientMessages' = IF accepts THEN Append(clientMessages, newMessage)
                          ELSE clientMessages
     /\ handled' = [type |-> "newMessage", id |-> id, accepted |-> accepts]
     /\ toast' = NoToast
     /\ UNCHANGED <<selectedUser, pendingMessages, sends, fetches, timers,
                    messages, hubRest>>

----------------------------------------------------------------------------
HubInit ==
  /\ userSocketMap = [u \in Users |-> NoConn]
  /\ sockets = {}
  /\ closed = {}
  /\ messages = <<>>
  /\ reqs = [s \in 1..MaxInFlight |-> Idle]
  /\ emits = {}
  /\ resp = NoResp
  /\ offlineCreated = {}
  /\ now = 1
  /\ ops = 0
  /\ call = NoCall
  /\ typingUsers = [u \in Users |-> NotTyping]
  /\ droppedTyping = {}

ClientInit ==
  /\ selectedUser = NoUser
  /\ clientMessages = <<>>
  /\ pendingMessages = {}
  /\ sends = [n \in 1..MaxSends |-> Unused]
  /\ fetches = [k \in 1..MaxFetches |-> Unused]
  /\ timers = <<>>
  /\ handled = NoEvent
  /\ toast = NoToast

\* nobody has a conversation on screen
SyncInit ==
  /\ views = [u \in Actors |-> <<>>]
  /\ inbox = [u \in Actors |-> <<>>]
  /\ replies = {}

Init == HubInit /\ ClientInit /\ SyncInit

Next ==
  \/ \E c \in Conns : Owner(c) \in Actors /\ Connect(c) /\ UNCHANGED <<clientVars, typingUsers, syncVars, droppedTyping>>
  \/ \E c \in Conns : Disconnect(c) /\ UNCHANGED <<clientVars, syncVars>>
  \/ \E u \in Actors, r \in Actors \cup {NoUser}, t \in TextInputs,
        f \in FileInputs, ok \in BOOLEAN :
        SendMessageReject(u, r, t, f, ok) /\ UNCHANGED <<clientVars, typingUsers, syncVars, droppedTyping>>
  \/ \E u \in Actors, r \in Actors, t \in TextInputs, f \in FileInputs :
        SendMessageSave(u, r, t, f) /\ UNCHANGED <<clientVars, typingUsers, syncVars, droppedTyping>>
  \/ \E s \in 1..MaxInFlight : SendMessageEmit(s) /\ UNCHANGED <<clientVars, typingUsers, syncVars, droppedTyping>>
  \/ \E u \in Actors : \E p \in Actors \ {u} :
        GetMessagesFind(u, p) /\ UNCHANGED <<clientVars, typingUsers, syncVars, droppedTyping>>
  \/ \E s \in 1..MaxInFlight : GetMessagesSave(s) /\ UNCHANGED <<clientVars, typingUsers, syncVars, droppedTyping>>
  \/ \E s \in 1..MaxInFlight : GetMessagesEmit(s) /\ UNCHANGED <<clientVars, typingUsers, syncVars, droppedTyping>>
  \/ \E u \in Actors, m \in 1..MaxMsgs :
        MarkMessageAsReadLoad(u, m) /\ UNCHANGED <<clientVars, typingUsers, syncVars, droppedTyping>>
  \/ \E s \in 1..MaxInFlight : MarkMessageAsReadSave(s) /\ UNCHANGED <<clientVars, typingUsers, syncVars, droppedTyping>>
  \/ \E s \in 1..MaxInFlight : MarkMessageAsReadEmit(s) /\ UNCHANGED <<clientVars, typingUsers, syncVars, droppedTyping>>
  \/ \E u \in Actors, m \in 1..MaxMsgs, e \in Emojis :
        AddReactionLoad(u, m, e) /\ UNCHANGED <<clientVars, typingUsers, syncVars, droppedTyping>>
  \/ \E u \in Actors, m \in 1..MaxMsgs :
        RemoveReactionLoad(u, m) /\ UNCHANGED <<clientVars, typingUsers, syncVars, droppedTyping>>
  \/ \E s \in 1..MaxInFlight : ReactionSave(s) /\ UNCHANGED <<clientVars, typingUsers, syncVars, droppedTyping>>
  \/ \E s \in 1..MaxInFlight : ReactionEmit(s) /\ UNCHANGED <<clientVars, typingUsers, syncVars, droppedTyping>>
  \/ \E u \in Actors, m \in 1..MaxMsgs, t \in EditInputs :
        EditMessageLoad(u, m, t) /\ UNCHANGED <<clientVars, typingUsers, syncVars, droppedTyping>>
  \/ \E u \in Actors, m \in 1..MaxMsgs, d \in BOOLEAN :
        DeleteMessageLoad(u, m, d) /\ UNCHANGED <<clientVars, typingUsers, syncVars, droppedTyping>>
  \/ \E s \in 1..MaxInFlight : ScalarSave(s) /\ UNCHANGED <<clientVars, typingUsers, syncVars, droppedTyping>>
  \/ \E s \in 1..MaxInFlight : ScalarEmit(s) /\ UNCHANGED <<clientVars, typingUsers, syncVars, droppedTyping>>
  \/ \E s \in 1..MaxInFlight : DeleteForMeSave(s) /\ UNCHANGED <<clientVars, typingUsers, syncVars, droppedTyping>>
  \/ \E s \in 1..MaxInFlight : DeleteForMeEmit(s) /\ UNCHANGED <<clientVars, typingUsers, syncVars, droppedTyping>>

\* the hub: presence registry, collection and handlers
Spec == Init /\ [][Next]_vars

TypingNext ==
  \/ \E c \in Conns : Owner(c) \in Actors /\ Connect(c) /\ UNCHANGED <<clientVars, typingUsers, syncVars, droppedTyping>>
  \/ \E c \in Conns : Disconnect(c) /\ UNCHANGED <<clientVars, syncVars>>
  \/ \E c \in Conns, r \in Actors : Typing(c, r) /\ UNCHANGED <<clientVars, syncVars, droppedTyping>>
  \/ \E c \in Conns, r \in Actors : StopTyping(c, r) /\ UNCHANGED <<clientVars, syncVars, droppedTyping>>
  \/ Sweep /\ UNCHANGED <<clientVars, syncVars, droppedTyping>>
  \/ Tick /\ UNCHANGED <<clientVars, syncVars, droppedTyping>>

\* presence and the typing tracker; the interval fires and time passes
SpecTyping ==
  /\ Init /\ [][TypingNext]_vars
  /\ WF_vars(Sweep /\ UNCHANGED <<clientVars, syncVars, droppedTyping>>)
  /\ WF_vars(Tick /\ UNCHANGED <<clientVars, syncVars, droppedTyping>>)

ClientNext ==
  \/ \E u \in Peers \cup {NoUser} : SetSelectedUser(u) /\ UNCHANGED syncVars
  \/ \E k \in 1..MaxFetches : FetchServed(k) /\ UNCHANGED syncVars
  \/ \E k \in 1..MaxFetches : FetchResolved(k) /\ UNCHANGED syncVars
  \/ \E k \in 1..MaxFetches : FetchFailed(k) /\ UNCHANGED syncVars
  \/ ClientSend /\ UNCHANGED syncVars
  \/ \E n \in 1..MaxSends : SendStored(n) /\ UNCHANGED syncVars
  \/ \E n \in 1..MaxSends : SendRefused(n) /\ UNCHANGED syncVars
  \/ \E n \in 1..MaxSends : SendResolved(n) /\ UNCHANGED syncVars
  \/ \E n \in 1..MaxSends : SendRejected(n) /\ UNCHANGED syncVars
  \/ PendingTimeout /\ UNCHANGED syncVars
  \/ \E s \in Users, r \in Users : CreatedElsewhere(s, r) /\ UNCHANGED syncVars
  \/ \E id \in 1..MaxMsgs : HandleNewMessage(id) /\ UNCHANGED syncVars

\* the client store of one user against the collection
SpecClient == Init /\ [][ClientNext]_vars

----------------------------------------------------------------------------
(* The screens of the two participants of a conversation, both online with
   the conversation open.  A screen holds the records of the visible list;
   the store replaces a record by the message an event or an answer carries.
   socket.io hands the events sent to one socket over in the order they were
   emitted; an answer travels on its own. *)

\* the events whose handler replaces the record by the message carried
ReplacingEvents ==
  {"reactionAdded", "reactionRemoved", "messageEdited", "messageDeleted"}

\* the handlers whose answer the store puts in place of the record
ReplacingAnswers == {"addReaction", "removeReaction", "editMessage", "deleteForEveryone"}

\* messages.map((msg) => msg._id === message._id ? message : msg)
ReplaceMessage(list, id, message) ==
  [i \in DOMAIN list |->
     IF list[i].id = id THEN [id |-> id, doc |-> message] ELSE list[i]]

\* what a step of the hub sends out: its events to the sockets they name, its
\* answer to the caller
Deliver ==
  /\ inbox' = [u \in Actors |->
                 LET mine == {e \in emits' : Owner(e.to) = u /\ e.type \in ReplacingEvents}
                 IN IF mine = {} THEN inbox[u]
                    ELSE Append(inbox[u], CHOOSE e \in mine : TRUE)]
  /\ replies' = IF resp'.op \in ReplacingAnswers /\ resp'.status = 200
                THEN replies \cup {[user |-> resp'.user, id |-> resp'.id,
                                     message |-> resp'.message]}
                ELSE replies
  /\ UNCHANGED <<views, clientVars, typingUsers, droppedTyping>>

\* socket.on("reactionAdded" | "reactionRemoved" | "messageEdited" | "messageDeleted")
ApplyEvent(u) ==
  /\ inbox[u] # <<>>
  /\ views' = [views EXCEPT ![u] =
                 ReplaceMessage(@, Head(inbox[u]).id, Head(inbox[u]).message)]
  /\ inbox' = [inbox EXCEPT ![u] = Tail(@)]
  /\ UNCHANGED <<replies, hubVars, clientVars>>

\* addReaction, removeReaction, editMessage, deleteMessage of the store, after
\* their await
ApplyReply(rp) ==
  /\ rp \in replies
  /\ views' = [views EXCEPT ![rp.user] = ReplaceMessage(@, rp.id, rp.message)]
  /\ replies' = replies \ {rp}
  /\ UNCHANGED <<inbox, hubVars, clientVars>>

\* A and B are connected, A has sent "h" to B, both have it on screen
BothOnline ==
  LET m == NewMessage("A", "B", <<"h">>, {})
  IN /\ userSocketMap = [u \in Users |-> IF u \in Actors THEN <<u, 1>> ELSE NoConn]
     /\ sockets = {<<u, 1>> : u \in Actors}
     /\ closed = {}
     /\ messages = <<m>>
     /\ reqs = [s \in 1..MaxInFlight |-> Idle]
     /\ emits = {}
     /\ resp = NoResp
     /\ offlineCreated = {}
     /\ now = 1
     /\ ops = 0
     /\ call = NoCall
     /\ typingUsers = [u \in Users |-> NotTyping]
     /\ droppedTyping = {}
     /\ ClientInit
     /\ views = [u \in Actors |-> <<[id |-> 1, doc |-> m]>>]
     /\ inbox = [u \in Actors |-> <<>>]
     /\ replies = {}

SyncNext ==
  \/ \E u \in Actors, m \in 1..MaxMsgs, e \in Emojis : AddReactionLoad(u, m, e) /\ Deliver
  \/ \E u \in Actors, m \in 1..MaxMsgs : RemoveReactionLoad(u, m) /\ Deliver
  \/ \E s \in 1..MaxInFlight : ReactionSave(s) /\ Deliver
  \/ \E s \in 1..MaxInFlight : ReactionEmit(s) /\ Deliver
  \/ \E u \in Actors, m \in 1..MaxMsgs, t \in EditInputs : EditMessageLoad(u, m, t) /\ Deliver
  \/ \E u \in Actors, m \in 1..MaxMsgs : DeleteMessageLoad(u, m, TRUE) /\ Deliver
  \/ \E s \in 1..MaxInFlight : ScalarSave(s) /\ Deliver
  \/ \E s \in 1..MaxInFlight : ScalarEmit(s) /\ Deliver
  \/ \E u \in Actors : ApplyEvent(u)
  \/ \E rp \in replies : ApplyReply(rp)

\* reactions, edits and deletions for everyone on a message both participants
\* have on screen
SpecSync == BothOnline /\ [][SyncNext]_vars

----------------------------------------------------------------------------
(* Edits of a message while time passes *)

EditNext ==
  \/ \E u \in Actors, m \in 1..MaxMsgs, t \in EditInputs :
        EditMessageLoad(u, m, t) /\ UNCHANGED <<clientVars, typingUsers, syncVars, droppedTyping>>
  \/ \E s \in 1..MaxInFlight : ScalarSave(s) /\ UNCHANGED <<clientVars, typingUsers, syncVars, droppedTyping>>
  \/ \E s \in 1..MaxInFlight : ScalarEmit(s) /\ UNCHANGED <<clientVars, typingUsers, syncVars, droppedTyping>>
  \/ Tick /\ UNCHANGED <<clientVars, syncVars, droppedTyping>>

\* edit requests on a message of two participants who are online, at various
\* times
SpecEdit == BothOnline /\ [][EditNext]_vars

----------------------------------------------------------------------------
(* Typing signals between users who are online *)

TypingOnlineNext ==
  \/ \E c \in Conns : Owner(c) \in Actors /\ Connect(c) /\ UNCHANGED <<clientVars, typingUsers, syncVars, droppedTyping>>
  \/ \E c \in Conns : Disconnect(c) /\ UNCHANGED <<clientVars, syncVars>>
  \/ \E c \in Conns, r \in Users : Typing(c, r) /\ UNCHANGED <<clientVars, syncVars, droppedTyping>>
  \/ \E c \in Conns, r \in Users : StopTyping(c, r) /\ UNCHANGED <<clientVars, syncVars, droppedTyping>>
  \/ Sweep /\ UNCHANGED <<clientVars, syncVars, droppedTyping>>
  \/ Tick /\ UNCHANGED <<clientVars, syncVars, droppedTyping>>

\* the typing tracker between two users who are connected, signals naming any
\* user; the interval fires and time passes
SpecTypingOnline ==
  /\ BothOnline /\ [][TypingOnlineNext]_vars
  /\ WF_vars(Sweep /\ UNCHANGED <<clientVars, syncVars, droppedTyping>>)
  /\ WF_vars(Tick /\ UNCHANGED <<clientVars, syncVars, droppedTyping>>)

----------------------------------------------------------------------------
(* Reactions of two users on one message, each user sending a request only
   after the answer to their previous one *)

\* no request of the user is in flight
Answered(userId) ==
  \A s \in 1..MaxInFlight : IF reqs[s] = Idle THEN TRUE ELSE reqs[s].user # userId

ReactionsNext ==
  \/ \E u \in Actors, m \in 1..MaxMsgs, e \in Emojis :
        Answered(u) /\ AddReactionLoad(u, m, e) /\ UNCHANGED <<clientVars, typingUsers, syncVars, droppedTyping>>
  \/ \E u \in Actors, m \in 1..MaxMsgs :
        Answered(u) /\ RemoveReactionLoad(u, m) /\ UNCHANGED <<clientVars, typingUsers, syncVars, droppedTyping>>
  \/ \E s \in 1..MaxInFlight : ReactionSave(s) /\ UNCHANGED <<clientVars, typingUsers, syncVars, droppedTyping>>
  \/ \E s \in 1..MaxInFlight : ReactionEmit(s) /\ UNCHANGED <<clientVars, typingUsers, syncVars, droppedTyping>>

\* reaction requests of the two participants of a message, those of different
\* users overlapping
SpecReactions == BothOnline /\ [][ReactionsNext]_vars

----------------------------------------------------------------------------
(* Receipts on a participant's screen: the handlers of messageRead and
   messageDelivered, given any event, any number of times, in any order. *)

\* the array a receipt is merged into
ReceiptPath(type) == IF type = "messageRead" THEN "readBy" ELSE "deliveredTo"

\* a merge that adds the user whether or not the array holds them
AppendReceipt(list, type, messageId, userId) ==
  [i \in DOMAIN list |->
     IF list[i].id = messageId
     THEN [list[i] EXCEPT !.doc[ReceiptPath(type)] = Append(@, userId)]
     ELSE list[i]]

\* messages.map: the record with the event's messageId gets { userId } added
\* to readBy (deliveredTo) unless some entry of it already names the user
MergeReceipt(list, type, messageId, userId) ==
  [i \in DOMAIN list |->
     IF list[i].id = messageId /\ userId \notin Range(list[i].doc[ReceiptPath(type)])
     THEN [list[i] EXCEPT !.doc[ReceiptPath(type)] = Append(@, userId)]
     ELSE list[i]]

\* socket.on("messageRead" | "messageDelivered") of u's store
ApplyReceipt(u, type, messageId, userId) ==
  /\ views' = [views EXCEPT ![u] = MergeReceipt(@, type, messageId, userId)]
  /\ handled' = [type |-> type, id |-> messageId, userId |-> userId, at |-> u]
  /\ UNCHANGED <<inbox, replies, hubVars, selectedUser, clientMessages,
                 pendingMessages, sends, fetches, timers, toast>>

ReceiptsNext ==
  \E type \in {"messageRead", "messageDelivered"}, id \in 1..MaxMsgs, x \in Users :
     ApplyReceipt(Me, type, id, x)

\* receipts arriving at the screen of a participant who has a message on
\* display
SpecReceipts == BothOnline /\ [][ReceiptsNext]_vars

----------------------------------------------------------------------------
(* The receipt indicator of the chat view (ChatContainer.jsx), for a message
   the current user sent.  receiverId is the populated user summary or the
   id: a value that is truthy either way. *)

\* message.readBy.some((r) => (r.userId._id || r.userId) === authUser._id)
isMessageRead(message, authUserId) ==
  \E i \in DOMAIN message.readBy : message.readBy[i] = authUserId

\* message.deliveredTo.some((d) =>
\*   (d.userId._id || d.userId) === message.receiverId._id || message.receiverId)
isMessageDelivered(message) ==
  \E i \in DOMAIN message.deliveredTo :
    message.deliveredTo[i] = message.receiverId \/ ~Falsy(message.receiverId)

\* isMessageRead(msg) ? blue double check : isMessageDelivered(msg) ? double
\* check : single check
ReceiptIcon(message, authUserId) ==
  IF isMessageRead(message, authUserId) THEN "read"
  ELSE IF isMessageDelivered(message) THEN "delivered"
  ELSE "sent"

----------------------------------------------------------------------------
(* Properties of the hub *)

\* how often user u occurs in the array arr of user ids
Count(arr, u) == Cardinality({i \in DOMAIN arr : arr[i] = u})

\* slot s took the step from pc `from` to pc `to`, or from `from` to its answer
Stepped(s, op, from) ==
  /\ reqs[s].op = op /\ reqs[s].pc = from
  /\ reqs'[s] # reqs[s]

\* the results of the Message.find a step ran for user u about peer p
JustFound(u, p) ==
  {reqs'[s].found : s \in {t \in 1..MaxInFlight :
      /\ reqs[t] = Idle /\ reqs'[t].op = "getMessages"
      /\ reqs'[t].user = u /\ reqs'[t].peer = p}}
  \cup (IF /\ ops' = ops + 1 /\ resp'.op = "getMessages"
           /\ resp'.user = u /\ resp'.peer = p
        THEN {resp'.body} ELSE {})

FoundIds(found) == {found[i].id : i \in DOMAIN found}

(* C1: a user's newest socket, while it is connected, is the socket the
   presence registry maps the user to: the disconnect of an older socket of
   the same user does not remove the mapping. *)
C1_StaleDisconnectKeepsNewer ==
  \A c \in sockets :
    (\A d \in sockets \cup closed : Owner(d) = Owner(c) => d[2] <= c[2])
      => getReceiverSocketId(Owner(c)) = c

(* C3: a message deleted for everyone has empty text and no image, video or
   audio, in every reachable state of the collection. *)
C3_TombstoneIsEmpty ==
  \A id \in MsgIds :
    messages[id].deletedForEveryone =>
      /\ messages[id].text = <<>>
      /\ Falsy(messages[id].image)
      /\ Falsy(messages[id].video)
      /\ Falsy(messages[id].audio)

(* C4: deletedForEveryone is one-way: no step of any handler takes it from
   true back to false. *)
C4_DeletedForEveryoneOneWay ==
  [][\A id \in MsgIds :
       messages[id].deletedForEveryone => messages'[id].deletedForEveryone]_hubVars

\* an edit was saved after the delete for everyone of the same message
C4_Witness ==
  \E id \in MsgIds :
    /\ messages[id].deletedForEveryone
    /\ messages[id].edited
    /\ messages[id].text # <<>>

(* C5: a successful creation emits newMessage to at most one socket, the one
   registered for the receiver when the handler emits, never to a socket of
   the sender. *)
C5_NewMessageToReceiverOnly ==
  LET ev == {e \in emits : e.type = "newMessage"}
  IN /\ Cardinality(ev) <= 1
     /\ \A e \in ev :
          /\ resp.op = "sendMessage" /\ resp.status = 201 /\ resp.id = e.id
          /\ e.to = getReceiverSocketId(e.message.receiverId)
          /\ Owner(e.to) = e.message.receiverId
          /\ Owner(e.to) # e.message.senderId

\* newMessage emitted while the sender is registered too
C5_Witness ==
  \E e \in emits :
    /\ e.type = "newMessage"
    /\ getReceiverSocketId(e.message.senderId) # NoConn

\* the creation answered 201 and its lookup found no socket of the receiver:
\* nothing is emitted and the record is in the collection
C6_Absorbed ==
  (/\ resp.op = "sendMessage" /\ resp.status = 201
   /\ getReceiverSocketId(resp.message.receiverId) = NoConn)
  => /\ emits = {}
     /\ resp.id \in MsgIds
     /\ resp.id \in offlineCreated
     /\ messages[resp.id].senderId = resp.user
     /\ messages[resp.id].receiverId = resp.message.receiverId

(* C6 as the specification words it: a message created while the receiver
   has no presence entry emits nothing, is stored and answered 201, and the
   receiver's next conversation fetch (a fetch made while the message is not
   yet marked delivered to the receiver) returns it. *)
C6_OfflineMessageFetched ==
  /\ []C6_Absorbed
  /\ [][\A u \in Users, p \in Users : \A f \in JustFound(u, p) :
          \A id \in offlineCreated :
            (/\ messages[id].receiverId = u /\ messages[id].senderId = p
             /\ u \notin Range(messages[id].deliveredTo))
              => id \in FoundIds(f)]_hubVars

(* C6 with the exception the fetch makes: a message created while the
   receiver has no presence entry emits nothing, is stored and answered 201,
   and the receiver's next conversation fetch, as every later one, returns it
   unless the receiver has deleted it for themselves before that fetch. *)
C6_OfflineMessageFetchedUnlessHidden ==
  /\ []C6_Absorbed
  /\ [][\A u \in Users, p \in Users : \A f \in JustFound(u, p) :
          \A id \in offlineCreated :
            (/\ messages[id].receiverId = u /\ messages[id].senderId = p
             /\ u \notin Range(messages[id].deletedForMe))
              => id \in FoundIds(f)]_hubVars

\* the receiver's fetch found a message whose creation found the receiver absent
C6_Witness ==
  \E s \in 1..MaxInFlight :
    /\ reqs[s].op = "getMessages"
    /\ \E i \in DOMAIN reqs[s].found :
         /\ reqs[s].found[i].id \in offlineCreated
         /\ reqs[s].found[i].doc.receiverId = reqs[s].user

\* every messageDelivered names a message's receiver, goes to the socket of
\* its sender, and the receiver is in the stored deliveredTo; every message
\* a fetch returns to its receiver is stored as delivered to that receiver
C7_Receipts ==
  /\ \A e \in emits :
       e.type = "messageDelivered" =>
         /\ e.to = getReceiverSocketId(messages[e.id].senderId)
         /\ e.userId = messages[e.id].receiverId
         /\ e.userId \in Range(messages[e.id].deliveredTo)
  /\ resp.op = "getMessages" =>
       \A i \in DOMAIN resp.body :
         resp.body[i].doc.receiverId = resp.user
           => resp.user \in Range(messages[resp.body[i].id].deliveredTo)

\* the steps of a fetch: what it selects, what it saves, what it emits
C7_Steps ==
  /\ \A s \in 1..MaxInFlight :
       (reqs[s] = Idle /\ reqs'[s].op = "getMessages") =>
         LET r == reqs'[s]
         IN /\ r.todo # {}
            /\ r.todo = {i \in DOMAIN r.found :
                           /\ messages[r.found[i].id].receiverId = r.user
                           /\ r.user \notin Range(messages[r.found[i].id].deliveredTo)}
  /\ (ops' = ops + 1 /\ resp'.op = "getMessages") =>
       /\ emits' = {}
       /\ \A i \in DOMAIN resp'.body :
            messages[resp'.body[i].id].receiverId = resp'.user
              => resp'.user \in Range(messages[resp'.body[i].id].deliveredTo)
  /\ \A s \in 1..MaxInFlight :
       Stepped(s, "getMessages", "save") =>
         LET i == CHOOSE i \in reqs[s].todo : \A j \in reqs[s].todo : i <= j
         IN reqs[s].user \in Range(messages'[reqs[s].found[i].id].deliveredTo)
  /\ \A s \in 1..MaxInFlight :
       Stepped(s, "getMessages", "emit") =>
         LET i == CHOOSE i \in reqs[s].todo : \A j \in reqs[s].todo : i <= j
             id == reqs[s].found[i].id
             to == getReceiverSocketId(messages[id].senderId)
         IN emits' = IF to = NoConn THEN {}
                     ELSE {[type |-> "messageDelivered", to |-> to, id |-> id,
                            userId |-> reqs[s].user]}
  /\ \A e \in emits' :
       e.type = "messageDelivered" =>
         \E s \in 1..MaxInFlight : Stepped(s, "getMessages", "emit")

(* C7: a fetch by B of the conversation with A adds B to deliveredTo of every
   returned message addressed to B whose deliveredTo lacked B when the fetch
   read it, and emits one messageDelivered (message id, B) per such message
   to A's socket if A is registered then; messages that had B in deliveredTo
   produce no event. *)
C7_FetchMarksDelivered == []C7_Receipts /\ [][C7_Steps]_hubVars

\* a delivered receipt was emitted to the sender's socket
C7_Witness ==
  \E e \in emits :
    /\ e.type = "messageDelivered"
    /\ e.to = getReceiverSocketId(messages[e.id].senderId)

(* C8: every stored message has its sender in deliveredTo, from the state in
   which it is created on. *)
C8_SenderDelivered ==
  \A id \in MsgIds : messages[id].senderId \in Range(messages[id].deliveredTo)

\* a message is stored and its newMessage has not been emitted yet
C8_Witness ==
  \E s \in 1..MaxInFlight :
    /\ reqs[s].op = "sendMessage" /\ reqs[s].pc = "emit"
    /\ messages[reqs[s].id].senderId \in Range(messages[reqs[s].id].deliveredTo)
    /\ emits = {}

\* no message holds two reactions of one user
C9_AtMostOne ==
  \A id \in MsgIds : \A u \in Users :
    Cardinality({i \in DOMAIN messages[id].reactions :
                   messages[id].reactions[i].userId = u}) <= 1

\* a saved addReaction leaves the user with the requested emoji and no other
C9_Replaces ==
  \A s \in 1..MaxInFlight :
    (Stepped(s, "addReaction", "save") /\ reqs'[s].op = "addReaction") =>
      LET r == reqs[s]
          after == messages'[r.id].reactions
      IN /\ \E i \in DOMAIN after :
              after[i] = [userId |-> r.user, emoji |-> r.emoji]
         /\ \A i \in DOMAIN after :
              after[i].userId = r.user => after[i].emoji = r.emoji

(* C9: a message holds at most one reaction per user after any sequence of
   addReaction and removeReaction; addReaction with another emoji replaces the
   user's earlier reaction. *)
C9_OneReactionPerUser == []C9_AtMostOne /\ [][C9_Replaces]_hubVars

(* C10: a user occurs at most once in readBy and at most once in deliveredTo
   of every message, also when requests overlap. *)
C10_AtMostOnce ==
  \A id \in MsgIds : \A u \in Users :
    /\ Count(messages[id].readBy, u) <= 1
    /\ Count(messages[id].deliveredTo, u) <= 1

(* C11: the users in readBy and in deliveredTo of a message only grow: no
   step of any handler removes a user from either array. *)
C11_ReceiptsOnlyGrow ==
  [][\A id \in MsgIds :
       /\ Range(messages[id].readBy) \subseteq Range(messages'[id].readBy)
       /\ Range(messages[id].deliveredTo) \subseteq Range(messages'[id].deliveredTo)]_hubVars

\* an edit, a deletion or a reaction was saved on a message that had been read,
\* and the reader is still in readBy
C11_Witness ==
  \E s \in 1..MaxInFlight :
    /\ reqs[s].op \in {"editMessage", "deleteForEveryone", "deleteForMe",
                       "addReaction"}
    /\ reqs[s].pc = "emit"
    /\ reqs[s].loaded.readBy # <<>>
    /\ Range(reqs[s].loaded.readBy) \subseteq Range(messages[reqs[s].id].readBy)

(* C12: a delete-for-everyone request by a user who is not the message's
   sender is answered 403, leaves the stored messages as they are, emits
   no event and leaves no handler in flight that could emit one. *)
C12_DeleteForEveryoneRefused ==
  [][(/\ call'.op = "deleteMessage"
      /\ call'.deleteForEveryone
      /\ call'.id \in MsgIds
      /\ messages[call'.id].senderId # call'.user)
     => /\ resp'.op = "deleteMessage" /\ resp'.status = 403
        /\ messages' = messages
        /\ emits' = {}
        /\ reqs' = reqs]_hubVars

\* the receiver of a message asked to delete it for everyone and got 403
C12_Witness ==
  /\ call.op = "deleteMessage"
  /\ call.deleteForEveryone
  /\ call.id \in MsgIds
  /\ messages[call.id].receiverId = call.user
  /\ resp.op = "deleteMessage" /\ resp.status = 403

\* the step received an edit request for a stored message from a user who is
\* not its sender
C13_EditByOther ==
  /\ call'.op = "editMessage"
  /\ call'.id \in MsgIds
  /\ messages[call'.id].senderId # call'.user

(* C13 as the specification words it: an edit request by a user who is not
   the message's sender is answered 403, leaves the stored messages as they
   are and emits no event. *)
C13_EditRefusedWithPermissionError ==
  [][C13_EditByOther
     => /\ resp'.op = "editMessage" /\ resp'.status = 403
        /\ messages' = messages
        /\ emits' = {}
        /\ reqs' = reqs]_hubVars

(* C13 with the order of the tests: an edit request by a user who is not the
   message's sender fails, with 403 when the new text is not blank and with
   400 when it is, leaves the stored messages as they are and emits no
   event. *)
C13_EditRefused ==
  [][C13_EditByOther
     => /\ resp'.op = "editMessage"
        /\ resp'.status = (IF Trim(call'.text) = <<>> THEN 400 ELSE 403)
        /\ messages' = messages
        /\ emits' = {}
        /\ reqs' = reqs]_hubVars

\* the receiver of a message asked to edit it with a text that is not blank
\* and got 403
C13_Witness ==
  /\ call.op = "editMessage"
  /\ call.id \in MsgIds
  /\ messages[call.id].receiverId = call.user
  /\ Trim(call.text) # <<>>
  /\ resp.op = "editMessage" /\ resp.status = 403

\* an edit request by the sender of a message that is stored as deleted for
\* everyone is answered 400 and changes nothing
C14_LaterEditRefused ==
  (/\ call'.op = "editMessage"
   /\ call'.id \in MsgIds
   /\ messages[call'.id].senderId = call'.user
   /\ messages[call'.id].deletedForEveryone)
  => /\ resp'.op = "editMessage" /\ resp'.status = 400
     /\ messages' = messages
     /\ emits' = {}
     /\ reqs' = reqs

\* what a conversation fetch by either participant returns for a message
\* deleted for everyone: no text, no media
C14_FetchShowsTombstone ==
  \A u \in Users, p \in Users :
    LET found == VisibleTo(u, p)
    IN \A i \in DOMAIN found :
         found[i].doc.deletedForEveryone =>
           /\ found[i].doc.text = <<>>
           /\ found[i].doc.image \in {"", Undefined}
           /\ found[i].doc.video \in {"", Undefined}
           /\ found[i].doc.audio \in {"", Undefined}

(* C14: once a message is deleted for everyone, every later edit request by
   its sender is answered 400 and leaves the tombstone as it is, and a fetch
   by either participant shows it with deletedForEveryone = true, empty text
   and no media. *)
C14_TombstoneStays ==
  /\ [][C14_LaterEditRefused]_hubVars
  /\ []C14_FetchShowsTombstone

(* C15: once a message is stored as deleted for everyone, every addReaction
   request on it is refused, and no step changes its reactions. *)
C15_NoReactionOnTombstone ==
  /\ [][(/\ call'.op = "addReaction"
         /\ call'.id \in MsgIds
         /\ messages[call'.id].deletedForEveryone)
        => /\ resp'.op = "addReaction" /\ resp'.status >= 400
           /\ reqs' = reqs]_hubVars
  /\ [][\A id \in MsgIds :
          messages[id].deletedForEveryone =>
            messages'[id].reactions = messages[id].reactions]_hubVars

----------------------------------------------------------------------------
(* Properties of the typing tracker *)

Times == {1 + k * SweepIntervalMs : k \in 0..MaxTicks}

\* the latest step was a sweep that removed a's entry and told b's socket
C16_SweptTo(a, b) ==
  /\ typingUsers[a] = NotTyping
  /\ call = NoCall
  /\ getReceiverSocketId(b) # NoConn
  /\ [type |-> "userStoppedTyping", to |-> getReceiverSocketId(b),
      userId |-> a] \in emits

\* a signalled again or stopped, a socket of a disconnected, or b is absent
C16_Interrupted(a, b) ==
  \/ call.op \in {"typing", "stopTyping"} /\ call.user = a
  \/ typingUsers[a] = NotTyping /\ \E c \in closed : Owner(c) = a
  \/ getReceiverSocketId(b) = NoConn

\* every entry a sweep removes is more than 3 s old, and the user it names,
\* if present, is sent userStoppedTyping with the typist's id
C16_SweepRemoves ==
  (sockets' = sockets /\ call' = NoCall) =>
    \A uid \in Users :
      typingUsers'[uid] # typingUsers[uid] =>
        /\ typingUsers'[uid] = NotTyping
        /\ now - typingUsers[uid].timestamp > 3000
        /\ getReceiverSocketId(typingUsers[uid].typingTo) # NoConn =>
             [type |-> "userStoppedTyping",
              to |-> getReceiverSocketId(typingUsers[uid].typingTo),
              userId |-> uid] \in emits'

(* C16: after a typing signal of A naming B, unless A signals again, stops or
   disconnects or B is absent, the sweep eventually removes A's entry and
   emits userStoppedTyping with A's id to B's socket; the sweep removes no
   entry whose last activity is 3 s old or less. *)
C16_SweepStopsTyping ==
  /\ \A a \in Actors, b \in Actors, t \in Times :
       (a # b /\ typingUsers[a] = [typingTo |-> b, timestamp |-> t])
         ~> (C16_SweptTo(a, b) \/ C16_Interrupted(a, b))
  /\ [][C16_SweepRemoves]_hubVars

\* the sweep removed the entry of a user who never stopped or disconnected,
\* and told the socket of the user the entry named
C16_Witness ==
  \E a \in Actors, b \in Actors :
    /\ a # b
    /\ C16_SweptTo(a, b)
    /\ \A c \in closed : Owner(c) # a

----------------------------------------------------------------------------
(* Properties of the client store *)

(* C2: within one conversation view, no two entries of the visible list have
   the same _id, whatever the order in which responses, timers and newMessage
   events (replays for an id the client has just created included) arrive. *)
C2_NoDuplicateIds ==
  \A i, j \in DOMAIN clientMessages :
    i # j => clientMessages[i]._id # clientMessages[j]._id

\* a newMessage event for a message already on display (the client's own,
\* just confirmed, or one a load brought) was handled and left out
C2_Witness ==
  /\ handled.type = "newMessage"
  /\ ~handled.accepted
  /\ RealId(handled.id) \in VisibleIds(clientMessages)
  /\ \/ RealId(handled.id) \in pendingMessages
     \/ messages[handled.id].senderId = selectedUser


\* the step handles the failure of send n
C17_Failed(n) == sends[n] # Unused /\ sends[n].st = "failed" /\ sends'[n] = Done

(* C17: when the creation request of an optimistic send fails, handling the
   failure leaves no entry with the send's temporary id, leaves every other
   entry and their order as they were, shows the error, and issues no
   request: the send is finished and stays finished. *)
C17_FailedSendRolledBack ==
  /\ [][\A n \in 1..MaxSends :
          C17_Failed(n) =>
            /\ TempId(n) \notin VisibleIds(clientMessages')
            /\ clientMessages' =
                 Filter(clientMessages,
                        {i \in DOMAIN clientMessages :
                           clientMessages[i]._id # TempId(n)})
            /\ toast' = [op |-> "sendMessage"]
            /\ \A m \in 1..MaxSends : m # n => sends'[m] = sends[m]
            /\ fetches' = fetches
            /\ messages' = messages]_vars
  /\ [][\A n \in 1..MaxSends : sends[n] = Done => sends'[n] = Done]_vars

\* a failed send was rolled back out of a list that holds an entry newer than
\* its placeholder
C17_Witness ==
  /\ toast = [op |-> "sendMessage"]
  /\ \E n \in 1..MaxSends : sends[n] = Done
  /\ \E m \in 1..MaxSends :
       /\ TempId(m) \in VisibleIds(clientMessages)
       /\ m > 1 /\ sends[1] = Done /\ TempId(1) \notin VisibleIds(clientMessages)


\* the step handles the success of send n while its placeholder is on display
C18_Resolved(n) ==
  /\ sends[n] # Unused /\ sends[n].st = "created"
  /\ sends'[n] # sends[n]
  /\ TempId(n) \in VisibleIds(clientMessages)

(* C18: when the creation request of an optimistic send succeeds while its
   placeholder is still in the list, the placeholder is replaced in place by
   the authoritative record: same length, same order, the authoritative id
   exactly once, no entry with the temporary id, no isOptimistic marker on
   the record. *)
C18_ReplacedInPlace ==
  [][\A n \in 1..MaxSends :
       C18_Resolved(n) =>
         LET real == RealId(sends[n].id)
         IN /\ Len(clientMessages') = Len(clientMessages)
            /\ \A i \in DOMAIN clientMessages :
                 IF clientMessages[i]._id = TempId(n)
                 THEN /\ clientMessages'[i]._id = real
                      /\ ~clientMessages'[i].isOptimistic
                      /\ clientMessages'[i].doc = sends[n].doc
                 ELSE clientMessages'[i] = clientMessages[i]
            /\ Cardinality({i \in DOMAIN clientMessages' :
                              clientMessages'[i]._id = real}) = 1
            /\ TempId(n) \notin VisibleIds(clientMessages')]_vars

\* a placeholder was replaced by its record in a list that holds a newer entry
C18_Witness ==
  \E n \in 1..MaxSends :
    /\ sends[n] # Unused /\ sends[n].st = "timer"
    /\ \E i \in DOMAIN clientMessages :
         /\ clientMessages[i]._id = RealId(sends[n].id)
         /\ i < Len(clientMessages)


\* the step empties the pending set for a conversation switch or a reload
C19_Cleared == pendingMessages' = {} /\ sends' = sends

(* C19: after a successful send the authoritative id is in the pending set
   from the step that handles the response until that send's own timer fires
   or the conversation is switched or reloaded, whatever the number of sends
   in flight and the order of their responses. *)
C19_StaysPending ==
  [][\A n \in 1..MaxSends :
       /\ (sends[n] # Unused /\ sends[n].st = "created" /\ sends'[n] # sends[n])
            => RealId(sends[n].id) \in pendingMessages'
       /\ (sends[n] # Unused /\ sends[n].st = "timer"
             /\ RealId(sends[n].id) \in pendingMessages)
            => \/ RealId(sends[n].id) \in pendingMessages'
               \/ sends'[n] = Done
               \/ C19_Cleared]_vars


(* C20: an incoming newMessage event is appended to the visible list only if,
   when it is handled, its sender is the counterpart of the conversation open
   at that moment, its id is not in the list and its id is not in the pending
   set; in every other case the list is left as it was. *)
C20_AppendsOnlyWhenAccepted ==
  [][handled'.type = "newMessage" =>
       LET id == handled'.id
           fromOpen == selectedUser # NoUser /\ messages[id].senderId = selectedUser
           listed == \E i \in DOMAIN clientMessages : clientMessages[i]._id = RealId(id)
           pending == RealId(id) \in pendingMessages
       IN IF fromOpen /\ ~listed /\ ~pending
          THEN clientMessages' = Append(clientMessages, Authoritative(id, messages[id]))
          ELSE clientMessages' = clientMessages]_vars

\* after a switch of conversation, an event from the new counterpart was
\* appended
C20_Witness ==
  /\ handled.type = "newMessage" /\ handled.accepted
  /\ fetches[2] # Unused
  /\ messages[handled.id].senderId = selectedUser
  /\ clientMessages # <<>>
  /\ clientMessages[Len(clientMessages)]._id = RealId(handled.id)


----------------------------------------------------------------------------
(* Properties of receipts, deletion for oneself, creation and presence *)

Receipts == {"messageDelivered", "messageRead"}

(* C21: every messageDelivered and every messageRead event is sent to the
   connection registered for the message's sender, which is a connection of
   the sender: never to the receiver or to a third user. *)
C21_ReceiptsToSenderOnly ==
  \A e \in emits :
    e.type \in Receipts =>
      /\ e.to = userSocketMap[messages[e.id].senderId]
      /\ Owner(e.to) = messages[e.id].senderId

\* a receipt for another user's reading or loading reached the sender
C21_Witness ==
  \E e \in emits :
    /\ e.type \in Receipts
    /\ e.userId = messages[e.id].receiverId
    /\ Owner(e.to) = messages[e.id].senderId


\* the content of a message: what its participants read
Content(doc) == <<doc.text, doc.image, doc.video, doc.audio>>

\* a fetch of u does not return what u has deleted for themselves, and
\* returns what only the counterpart has deleted, with its stored content
C23_Fetches ==
  \A u \in Actors, p \in Actors : \A f \in JustFound(u, p) :
    \A id \in MsgIds :
      /\ u \in Range(messages[id].deletedForMe) => id \notin FoundIds(f)
      /\ (/\ InConversation(messages[id], u, p)
          /\ p \in Range(messages[id].deletedForMe)
          /\ u \notin Range(messages[id].deletedForMe))
         => \E i \in DOMAIN f : f[i].id = id /\ Content(f[i].doc) = Content(messages[id])

\* the save of a delete-for-me leaves the content as it is, and a request of
\* a user who is already in deletedForMe writes nothing
C23_Saves ==
  \A s \in 1..MaxInFlight :
    (reqs[s].op = "deleteForMe" /\ reqs'[s] # reqs[s]) =>
      /\ Len(messages') = Len(messages)
      /\ \A id \in MsgIds :
           /\ Content(messages'[id]) = Content(messages[id])
           /\ messages'[id].deletedForEveryone = messages[id].deletedForEveryone
      /\ reqs[s].user \in Range(reqs[s].loaded.deletedForMe) => messages' = messages

\* messageDeletedForMe goes to the socket registered for the requesting user
C23_Events ==
  \A e \in emits :
    e.type = "messageDeletedForMe" =>
      /\ resp.op = "deleteMessage"
      /\ e.to = userSocketMap[resp.user]
      /\ Owner(e.to) = resp.user

(* C23: after user U deletes a message for themselves, U's later fetches
   omit it, the other participant's fetches still return it with its content
   unchanged, the messageDeletedForMe event goes only to U's own connection,
   and a repeated request does not add U to deletedForMe a second time. *)
C23_DeletedForMeOnly ==
  /\ []C23_Events
  /\ [][C23_Fetches /\ C23_Saves]_hubVars

\* the counterpart's fetch returned a message its receiver had deleted for
\* themselves
C23_Witness ==
  /\ resp.op = "getMessages" /\ resp.status = 200
  /\ \E i \in DOMAIN resp.body :
       /\ resp.peer \in Range(messages[resp.body[i].id].deletedForMe)
       /\ resp.user \notin Range(messages[resp.body[i].id].deletedForMe)

(* C24: markRead is idempotent: a markMessageAsRead of a user whom the
   stored readBy already holds leaves the collection unchanged, emits no
   messageRead, leaves nothing in flight and answers 200. *)
C24_MarkReadIdempotent ==
  [][(/\ call'.op = "markMessageAsRead"
      /\ call'.id \in MsgIds
      /\ call'.user \in Range(messages[call'.id].readBy))
     => /\ messages' = messages
        /\ emits' = {}
        /\ reqs' = reqs
        /\ resp'.op = "markMessageAsRead" /\ resp'.status = 200]_hubVars

\* a second markMessageAsRead of the same user was answered
C24_Witness ==
  /\ call.op = "markMessageAsRead"
  /\ resp.op = "markMessageAsRead" /\ resp.status = 200
  /\ call.id \in MsgIds
  /\ Count(messages[call.id].readBy, call.user) = 1
  /\ \A s \in 1..MaxInFlight : reqs[s] = Idle

\* the step takes a sendMessage request and refuses it with `status`
C25_Refused(status) ==
  /\ resp'.op = "sendMessage" /\ resp'.status = status
  /\ messages' = messages
  /\ emits' = {}
  /\ reqs' = reqs

(* C25: a create request with blank text and no image, video or audio, or
   with sender equal to receiver, is rejected with a validation error (400);
   otherwise one naming a receiver that does not exist is rejected with
   not-found (404); no message is stored and no newMessage is emitted. *)
C25_CreateRejected ==
  [][call'.op = "sendMessage" =>
       LET blank == \A i \in DOMAIN call'.text : call'.text[i] = " "
           invalid == (blank /\ call'.files = {}) \/ call'.user = call'.id
       IN /\ invalid => C25_Refused(400)
          /\ (~invalid /\ call'.id \notin Users) => C25_Refused(404)]_hubVars

\* a request naming no existing receiver was answered 404 with a message of
\* another conversation in store
C25_Witness ==
  /\ call.op = "sendMessage" /\ call.id \notin Users
  /\ resp.op = "sendMessage" /\ resp.status = 404
  /\ messages # <<>>

Spaces(n) == [i \in 1..n |-> " "]

\* t is raw without the spaces at its two ends
IsTrimOf(t, raw) ==
  /\ t # <<>> => (t[1] # " " /\ t[Len(t)] # " ")
  /\ \E i \in 0..Len(raw), j \in 0..Len(raw) : raw = Spaces(i) \o t \o Spaces(j)

\* a message as created: not edited, no reactions, deleted for nobody
Fresh(doc) ==
  /\ doc.edited = FALSE
  /\ doc.reactions = <<>>
  /\ doc.deletedForMe = <<>>
  /\ doc.deletedForEveryone = FALSE

\* a step that stores a message with text only stores the trimmed text
C27_Created ==
  (call'.op = "sendMessage" /\ call'.files = {} /\ Len(messages') = Len(messages) + 1)
    => /\ IsTrimOf(messages'[Len(messages')].text, call'.text)
       /\ Fresh(messages'[Len(messages')])
       /\ \A id \in MsgIds : messages'[id] = messages[id]

\* the answer to a fetch that was the only request after the creation of
\* the only message, by a participant of it, holds that message alone
C27_Fetched ==
  (/\ resp.op = "getMessages" /\ resp.status = 200
   /\ ops = 2 /\ Len(messages) = 1
   /\ InConversation(messages[1], resp.user, resp.peer))
  => /\ Len(resp.body) = 1
     /\ resp.body[1].id = 1
     /\ resp.body[1].doc.text = messages[1].text
     /\ Fresh(resp.body[1].doc)

(* C27: creating a message with text only and then fetching the
   conversation, by either participant and with no other operation in
   between, returns exactly one message, with the same trimmed text,
   edited = false, no reactions, empty deletedForMe and
   deletedForEveryone = false. *)
C27_RoundTrip == []C27_Fetched /\ [][C27_Created]_hubVars

\* the receiver fetched right after the creation and got the text "h"
C27_Witness ==
  /\ resp.op = "getMessages" /\ resp.status = 200
  /\ ops = 2 /\ Len(messages) = 1
  /\ resp.user = messages[1].receiverId /\ resp.peer = messages[1].senderId
  /\ Len(resp.body) = 1
  /\ resp.body[1].doc.text = <<"h">>
  /\ messages[1].image = Undefined

\* an edit with non-blank text by the sender of a stored message that is not
\* deleted is taken on, dated with the time of the request
C28_Dated ==
  (/\ call'.op = "editMessage"
   /\ call'.id \in MsgIds
   /\ \E i \in DOMAIN call'.text : call'.text[i] # " "
   /\ messages[call'.id].senderId = call'.user
   /\ ~messages[call'.id].deletedForEveryone)
  => \E s \in 1..MaxInFlight :
       /\ reqs[s] = Idle
       /\ reqs'[s].op = "editMessage" /\ reqs'[s].pc = "save"
       /\ reqs'[s].id = call'.id
       /\ reqs'[s].doc.edited
       /\ reqs'[s].doc.editedAt = now

\* the save of an edit made later than the editedAt it loaded stores
\* edited = true and the time of that edit
C28_Saved ==
  \A s \in 1..MaxInFlight :
    (/\ Stepped(s, "editMessage", "save")
     /\ reqs[s].doc.editedAt # reqs[s].loaded.editedAt)
    => /\ messages'[reqs[s].id].edited
       /\ messages'[reqs[s].id].editedAt = reqs[s].doc.editedAt

\* after its save an edit emits messageEdited to both participants who are
\* registered, and answers 200
C28_Emitted ==
  \A s \in 1..MaxInFlight :
    Stepped(s, "editMessage", "emit") =>
      /\ resp'.op = "editMessage" /\ resp'.status = 200
      /\ \A u \in {reqs[s].doc.senderId, reqs[s].doc.receiverId} :
           userSocketMap[u] # NoConn =>
             \E e \in emits' :
               /\ e.type = "messageEdited" /\ e.to = userSocketMap[u]
               /\ e.id = reqs[s].id
               /\ e.message.edited /\ e.message.editedAt = reqs[s].doc.editedAt

(* C28: every successful edit by the sender of a non-deleted message sets
   edited = true and editedAt to the time of that edit, also when the new
   text equals the current text; a second such edit updates editedAt again
   and emits messageEdited again. *)
C28_EveryEditDates == [][C28_Dated /\ C28_Saved /\ C28_Emitted]_hubVars

\* a second edit with the text the message already had was saved at a later
\* time than the first
C28_Witness ==
  \E s \in 1..MaxInFlight :
    /\ reqs[s].op = "editMessage" /\ reqs[s].pc = "emit"
    /\ reqs[s].loaded.edited
    /\ reqs[s].loaded.text = reqs[s].doc.text
    /\ reqs[s].loaded.editedAt < reqs[s].doc.editedAt
    /\ messages[reqs[s].id].editedAt = reqs[s].doc.editedAt

(* C29: every connect and every disconnect broadcasts to all connections a
   getOnlineUsers event whose payload is exactly the set of users in the
   presence registry after that register or unregister. *)
C29_PresenceBroadcast ==
  [][sockets' # sockets =>
       LET registered == {u \in Users : userSocketMap'[u] # NoConn}
       IN /\ \A c \in sockets' :
               \E e \in emits' : e.type = "getOnlineUsers" /\ e.to = c
          /\ \A e \in emits' :
               e.type = "getOnlineUsers" /\ e.to \in sockets' /\ e.users = registered]_hubVars

\* a disconnect was broadcast to a connection that stays, without the user
\* who left
C29_Witness ==
  /\ call = NoCall /\ resp = NoResp
  /\ \E c \in closed, e \in emits :
       /\ e.type = "getOnlineUsers"
       /\ Owner(c) \notin e.users
       /\ e.users # {}
       /\ e.to \in sockets

\* c is the connection its user registered last
MostRecent(c) ==
  \A d \in sockets \cup closed : Owner(d) = Owner(c) => d[2] <= c[2]

\* a lookup yields a connection of that user, the one registered last; an
\* event sent to one user goes to the connection that user registered last
C30_Routing ==
  /\ \A u \in Users :
       /\ Cardinality({c \in Conns : Owner(c) = u /\ userSocketMap[u] = c}) <= 1
       /\ userSocketMap[u] # NoConn =>
            /\ Owner(userSocketMap[u]) = u
            /\ MostRecent(userSocketMap[u])
  /\ \A e \in emits : e.type # "getOnlineUsers" => MostRecent(e.to)

(* C30: the presence registry holds at most one connection per user, and
   once a user has registered a second connection every lookup that finds
   the user and every event routed to the user uses the connection
   registered last, not an earlier one. *)
C30_LatestConnection ==
  /\ []C30_Routing
  /\ [][\A c \in sockets' \ sockets : userSocketMap'[Owner(c)] = c]_hubVars

\* an event was routed to the second connection of a user whose first one is
\* still connected
C30_Witness ==
  \E e \in emits :
    /\ e.type # "getOnlineUsers"
    /\ e.to[2] = 2
    /\ <<Owner(e.to), 1>> \in sockets
    /\ userSocketMap[Owner(e.to)] = e.to

----------------------------------------------------------------------------
(* Properties of the participants' screens *)

\* nothing is in flight: no handler, no event, no answer
Quiescent ==
  /\ \A s \in 1..MaxInFlight : reqs[s] = Idle
  /\ \A u \in Actors : inbox[u] = <<>>
  /\ replies = {}

Agrees(local, stored) ==
  /\ local.text = stored.text
  /\ local.edited = stored.edited
  /\ Range(local.reactions) = Range(stored.reactions)
  /\ local.deletedForEveryone = stored.deletedForEveryone

(* C22: once every reaction, edit and delete-for-everyone request on a
   message has completed and every event has been applied, each participant's
   copy of the message agrees with the stored record on text, edited,
   reactions and deletedForEveryone, also when requests overlapped. *)
C22_ScreensConverge ==
  Quiescent =>
    \A u \in Actors : \A i \in DOMAIN views[u] :
      Agrees(views[u][i].doc, messages[views[u][i].id])


ReceiptEvents == [type : Receipts, id : 1..MaxMsgs, userId : Users]

Merged(list, e) == MergeReceipt(list, e.type, e.id, e.userId)

\* the two lists hold the same records with the same readers and recipients
SameUserSets(l1, l2) ==
  /\ DOMAIN l1 = DOMAIN l2
  /\ \A i \in DOMAIN l1 :
       /\ l1[i].id = l2[i].id
       /\ Range(l1[i].doc.readBy) = Range(l2[i].doc.readBy)
       /\ Range(l1[i].doc.deliveredTo) = Range(l2[i].doc.deliveredTo)

\* on every screen reached, two receipts give the same user sets in either
\* order, and a receipt applied again changes nothing
C26_Commutes ==
  \A u \in Actors : \A e1 \in ReceiptEvents, e2 \in ReceiptEvents :
    /\ SameUserSets(Merged(Merged(views[u], e1), e2), Merged(Merged(views[u], e2), e1))
    /\ Merged(Merged(views[u], e1), e1) = Merged(views[u], e1)

\* a receipt adds its user to the array it names of the record it names,
\* once, when the user is not yet there, and changes nothing else
C26_InsertsOnce ==
  handled'.type \in Receipts =>
    LET u == handled'.at
    IN /\ DOMAIN views'[u] = DOMAIN views[u]
       /\ \A i \in DOMAIN views[u] : \A path \in {"readBy", "deliveredTo"} :
            \A x \in Users :
              Count(views'[u][i].doc[path], x) =
                IF /\ views[u][i].id = handled'.id
                   /\ path = ReceiptPath(handled'.type)
                   /\ x = handled'.userId
                   /\ Count(views[u][i].doc[path], x) = 0
                THEN 1
                ELSE Count(views[u][i].doc[path], x)

(* C26: on the client, messageDelivered and messageRead events for messages
   on display yield the same deliveredTo and readBy user sets whatever the
   order in which they are applied and however often each is repeated; no
   user is inserted twice. *)
C26_ReceiptsMerge == []C26_Commutes /\ [][C26_InsertsOnce]_vars

\* a receipt was handled on a screen whose record already had that reader
\* and another one
C26_Witness ==
  /\ handled.type = "messageRead"
  /\ \E i \in DOMAIN views[handled.at] :
       /\ views[handled.at][i].id = handled.id
       /\ Cardinality(Range(views[handled.at][i].doc.readBy)) = 2
       /\ views[handled.at][i].doc.readBy[1] = handled.userId
       /\ Len(views[handled.at][i].doc.deliveredTo) = 2


----------------------------------------------------------------------------
(* Properties of disconnection and of typing notifications *)

\* a user without a live socket has no presence entry and no typing entry
C31_Vacated ==
  \A u \in Users :
    (\A c \in sockets : Owner(c) # u) =>
      userSocketMap[u] = NoConn /\ typingUsers[u] = NotTyping

\* the step in which a user's only socket disconnects removes both entries
\* and emits no userStoppedTyping
C31_Quiet ==
  \A c \in sockets \ sockets' :
    (\A d \in sockets : Owner(d) = Owner(c) => d = c) =>
      /\ userSocketMap'[Owner(c)] = NoConn
      /\ typingUsers'[Owner(c)] = NotTyping
      /\ \A e \in emits' : e.type # "userStoppedTyping"

\* a stop notification names a typist who has a live socket; the sweep sends
\* one only for an entry the tracker holds
C31_NoLateStop ==
  \A e \in emits' :
    e.type = "userStoppedTyping" =>
      /\ \E c \in sockets : Owner(c) = e.userId
      /\ call' = NoCall => typingUsers[e.userId] # NotTyping

(* C31: when a user's only connection disconnects, the presence entry and
   the typing entry go in the same step (no state shows a user without a
   connection holding either), the disconnect emits no userStoppedTyping,
   and no later sweep emits a stop notification for the removed entry. *)
C31_DisconnectVacates ==
  /\ []C31_Vacated
  /\ [][C31_Quiet /\ C31_NoLateStop]_hubVars

\* a user who was typing lost their only connection, and the clock has since
\* run past the idle window
C31_Witness ==
  \E a \in droppedTyping :
    /\ \A c \in sockets : Owner(c) # a
    /\ \A c \in closed : Owner(c) = a => c = <<a, 1>>
    /\ typingUsers[a] = NotTyping
    /\ now > 1 + SweepIntervalMs + TypingTimeoutMs

\* the socket the registry holds for the target of a's typing entry
C32_StoredTarget(a) == getReceiverSocketId(typingUsers[a].typingTo)

\* a typing signal records the named target and tells it, if present
C32_TypingNotifies ==
  call'.op = "typing" =>
    /\ typingUsers'[call'.user] = [typingTo |-> call'.id, timestamp |-> now]
    /\ getReceiverSocketId(call'.id) # NoConn =>
         [type |-> "userTyping", to |-> getReceiverSocketId(call'.id),
          userId |-> call'.user] \in emits'

\* a stop signal of a user who has an entry removes it and tells the target
\* the entry names, if present
C32_StopNotifies ==
  (call'.op = "stopTyping" /\ typingUsers[call'.user] # NotTyping) =>
    /\ typingUsers'[call'.user] = NotTyping
    /\ C32_StoredTarget(call'.user) # NoConn =>
         [type |-> "userStoppedTyping", to |-> C32_StoredTarget(call'.user),
          userId |-> call'.user] \in emits'

(* C32: every typing signal of A emits userTyping with A's id to the named
   target, if present, and every stop signal of A while A has an entry
   removes the entry and emits userStoppedTyping with A's id to the target
   the entry holds, if present. *)
C32_TransitionsNotify == [][C32_TypingNotifies /\ C32_StopNotifies]_hubVars

\* the latest step told a socket of b that a is typing
C36_ToldTyping(a, b) ==
  \E e \in emits : e.type = "userTyping" /\ e.userId = a /\ Owner(e.to) = b

\* the latest step told a socket of b that a stopped typing
C36_ToldStopped(a, b) ==
  \E e \in emits : e.type = "userStoppedTyping" /\ e.userId = a /\ Owner(e.to) = b

\* a socket of a or of b has disconnected
C36_Left(a, b) == \E c \in closed : Owner(c) \in {a, b}

(* C36: every user B who was sent userTyping for typist A is later sent
   userStoppedTyping for A, unless a connection of A or of B closes, while
   the sweep keeps running; also when A names another target or stops naming
   another receiver in between. *)
C36_TypingIsEnded ==
  \A a \in Actors, b \in Actors :
    C36_ToldTyping(a, b) ~> (C36_ToldStopped(a, b) \/ C36_Left(a, b))

----------------------------------------------------------------------------
(* Properties of the collection's content and of reactions *)

\* the content fields of a message that hold something
C33_Filled(doc) ==
  {f \in {"text", "image", "video", "audio"} :
     IF f = "text" THEN doc.text # <<>> ELSE doc[f] \notin {Undefined, ""}}

\* a message that is not deleted for everyone holds some content
C33_HasContent ==
  \A id \in MsgIds :
    ~messages[id].deletedForEveryone => C33_Filled(messages[id]) # {}

\* a content field is emptied only by the save of a deletion for everyone
C33_OnlyTombstoneClears ==
  \A id \in MsgIds :
    ~(C33_Filled(messages[id]) \subseteq C33_Filled(messages'[id])) =>
      /\ messages'[id].deletedForEveryone
      /\ \E s \in 1..MaxInFlight :
           reqs[s].op = "deleteForEveryone" /\ reqs[s].pc = "save" /\ reqs[s].id = id

(* C33: in every reachable state, every stored message that is not deleted
   for everyone has text, an image, a video or an audio: a message is created
   with content, an edit leaves non-blank text, and content is cleared only
   together with the mark of deletion for everyone. *)
C33_ContentStays == []C33_HasContent /\ [][C33_OnlyTombstoneClears]_hubVars

\* a message that holds an image was edited; a further edit with blank text
\* has just been refused
C33_Witness ==
  /\ resp.op = "editMessage" /\ resp.status = 400
  /\ call.op = "editMessage" /\ Trim(call.text) = <<>>
  /\ \E id \in MsgIds :
       /\ messages[id].edited /\ ~messages[id].deletedForEveryone
       /\ messages[id].text # <<>>
       /\ messages[id].image = Url("image")

\* the reactions of user u among `reactions`
C34_Own(reactions, u) ==
  Filter(reactions, {i \in DOMAIN reactions : reactions[i].userId = u})

\* the reactions of the users other than u among `reactions`
C34_Others(reactions, u) ==
  Filter(reactions, {i \in DOMAIN reactions : reactions[i].userId # u})

\* the save of a reaction request leaves the other users' reactions as stored
C34_OthersKept ==
  \A s \in 1..MaxInFlight :
    (reqs[s].op \in {"addReaction", "removeReaction"} /\ reqs[s].pc = "save"
       /\ reqs'[s] # reqs[s]) =>
      C34_Others(messages'[reqs[s].id].reactions, reqs[s].user)
        = C34_Others(messages[reqs[s].id].reactions, reqs[s].user)

\* the save of a reaction request stores what its user asked for
C34_OwnStored ==
  \A s \in 1..MaxInFlight :
    (reqs[s].op \in {"addReaction", "removeReaction"} /\ reqs[s].pc = "save"
       /\ reqs'[s] # reqs[s]) =>
      C34_Own(messages'[reqs[s].id].reactions, reqs[s].user)
        = IF reqs[s].op = "addReaction"
          THEN <<[userId |-> reqs[s].user, emoji |-> reqs[s].emoji]>>
          ELSE <<>>

(* C34: a reaction request of one user never removes or changes a reaction
   of another user, and when requests of two users on one message overlap,
   each request's save stores the reaction state its user asked for. *)
C34_ReactionsIndependent == [][C34_OthersKept /\ C34_OwnStored]_hubVars

----------------------------------------------------------------------------
(* Properties of the client's pending set and of the sender's view *)

\* the ids whose 2 s timer is set and has not fired
C35_Timed == {RealId(sends[timers[i]].id) : i \in DOMAIN timers}

(* C35: every id in the pending set has its timer still to fire, so that the
   timer removes it: no id is put back into the set after its timer has
   fired, whatever the order of sends, responses, timers and conversation
   switches. *)
C35_PendingIsTimed == pendingMessages \subseteq C35_Timed

\* the step handles the success of send n while the conversation with its
\* receiver is the open one
C39_Reconciled(n) ==
  /\ sends[n] # Unused /\ sends[n].st = "created"
  /\ sends'[n] # sends[n]
  /\ selectedUser = sends[n].to

(* C39: when the response of a successful creation is handled while the
   conversation with the receiver is open, the visible list holds the
   authoritative record afterwards, also when the conversation was switched
   and reopened or reloaded while the request was in flight. *)
C39_CreatedIsVisible ==
  [][\A n \in 1..MaxSends :
       C39_Reconciled(n) => RealId(sends[n].id) \in VisibleIds(clientMessages')]_vars

----------------------------------------------------------------------------
(* Properties of the registry's connections and of receipts' members *)

(* C37: in every reachable state the socket the presence registry holds for
   a user has connected and has not disconnected, for every interleaving of
   connects and disconnects of several sockets of one user. *)
C37_RegisteredIsLive ==
  \A u \in Users :
    userSocketMap[u] # NoConn =>
      /\ userSocketMap[u] \in sockets
      /\ userSocketMap[u] \notin closed
      /\ Owner(userSocketMap[u]) = u

\* a user's first socket has disconnected, the second one connected after
\* that and is the one the registry holds
C37_Witness ==
  \E u \in Actors :
    /\ <<u, 1>> \in closed
    /\ <<u, 2>> \in sockets
    /\ userSocketMap[u] = <<u, 2>>

\* a step emits messageRead only for a request of the message's receiver
C38_ReadReceiptsOfReceiver ==
  \A e \in emits' :
    e.type = "messageRead" => e.userId = messages[e.id].receiverId

\* deliveredTo names the sender and the receiver only, readBy the receiver only
C38_Members ==
  \A id \in MsgIds :
    /\ Range(messages[id].deliveredTo)
         \subseteq {messages[id].senderId, messages[id].receiverId}
    /\ Range(messages[id].readBy) \subseteq {messages[id].receiverId}

(* C38: for every message, deliveredTo contains only its sender and its
   receiver and readBy only its receiver, whoever sends the requests, and a
   messageRead receipt is emitted only for a request of the receiver. *)
C38_ReceiptsOfParticipants ==
  []C38_Members /\ [][C38_ReadReceiptsOfReceiver]_hubVars

----------------------------------------------------------------------------
(* Properties of the receipt indicator *)

\* what the indicator of a sent message is to show
C40_Expected(message) ==
  IF message.receiverId \in Range(message.readBy) THEN "read"
  ELSE IF message.receiverId \in Range(message.deliveredTo) THEN "delivered"
  ELSE "sent"

(* C40: for every message on the sender's screen that the sender sent, the
   indicator shows "read" exactly when the receiver is in readBy, "delivered"
   exactly when the receiver is in deliveredTo and not in readBy, and "sent"
   otherwise; the sender's own deliveredTo entry alone does not give
   "delivered". *)
C40_IndicatorFollowsReceiver ==
  \A i \in DOMAIN views[Me] :
    views[Me][i].doc.senderId = Me =>
      ReceiptIcon(views[Me][i].doc, Me) = C40_Expected(views[Me][i].doc)

========================================================================
